---- MODULE Spec2Model ----
(***************************************************************************)
(* A model of tidybib: the BibTeX parser of biblib.py (scanner, macro      *)
(* table, parser, loads), its formatter (dumps), the document sort of      *)
(* __init__.py and the per-file loop of main() with its in-place replace.  *)
(*                                                                         *)
(* Text is a sequence of one-character strings.  Offsets are those of the  *)
(* source: off counts the characters already consumed, so the character    *)
(* at offset off is data[off + 1] and end of input is off = Len(data).     *)
(***************************************************************************)
EXTENDS Integers, Sequences, FiniteSets, TLC

\* ------------------------------------------------------------ characters

\* The printable ASCII characters in code point order, from 32 (space).
\* The grave accent (96) cannot be written in a string of this language and
\* is the atom "GRAVE".
Printable ==
    << " ", "!", "\"", "#", "$", "%", "&", "'", "(", ")", "*", "+", ",", "-",
       ".", "/", "0", "1", "2", "3", "4", "5", "6", "7", "8", "9", ":", ";",
       "<", "=", ">", "?", "@", "A", "B", "C", "D", "E", "F", "G", "H", "I",
       "J", "K", "L", "M", "N", "O", "P", "Q", "R", "S", "T", "U", "V", "W",
       "X", "Y", "Z", "[", "\\", "]", "^", "_", "GRAVE", "a", "b", "c", "d", "e",
       "f", "g", "h", "i", "j", "k", "l", "m", "n", "o", "p", "q", "r", "s",
       "t", "u", "v", "w", "x", "y", "z", "{", "|", "}", "~" >>

Chars == { Printable[i] : i \in DOMAIN Printable } \cup { "\t", "\n" }

\* ord(c): the code point of a character.
OrdMap ==
    [ c \in Chars |->
        IF c = "\t" THEN 9
        ELSE IF c = "\n" THEN 10
        ELSE 31 + (CHOOSE i \in DOMAIN Printable : Printable[i] = c) ]

Ord(c) == OrdMap[c]

Chr(n) == Printable[n - 31]

Digits == { "0", "1", "2", "3", "4", "5", "6", "7", "8", "9" }

\* str.lower() and str.upper() of one character.
LowerChar(c) == IF Ord(c) >= 65 /\ Ord(c) <= 90 THEN Chr(Ord(c) + 32) ELSE c

UpperChar(c) == IF Ord(c) >= 97 /\ Ord(c) <= 122 THEN Chr(Ord(c) - 32) ELSE c

Lower(s) == [ i \in DOMAIN s |-> LowerChar(s[i]) ]

Upper(s) == [ i \in DOMAIN s |-> UpperChar(s[i]) ]

\* Python's order of two strings: lexicographic by code point, a proper
\* prefix before the longer string.
RECURSIVE StrLess(_, _)
StrLess(a, b) ==
    IF b = << >> THEN FALSE
    ELSE IF a = << >> THEN TRUE
    ELSE IF a[1] # b[1] THEN Ord(a[1]) < Ord(b[1])
    ELSE StrLess(Tail(a), Tail(b))

\* "sep".join(lines)
RECURSIVE Join(_, _)
Join(lines, sep) ==
    IF lines = << >> THEN << >>
    ELSE IF Len(lines) = 1 THEN lines[1]
    ELSE lines[1] \o sep \o Join(Tail(lines), sep)

\* ------------------------------------------------------------ scanner

\* ID_RE: legal identifier characters; the first may not be a digit.
IdExcluded == { " ", "\t", "\"", "#", "%", "'", "(", ")", ",", "=", "{", "}" }

IdChars == { c \in Chars : Ord(c) >= 32 /\ Ord(c) <= 127 } \ IdExcluded

\* SPACE_RE: BibTeX's white space is space, tab and newline.
SpaceChars == { " ", "\t", "\n" }

\* The end of the longest run of characters of set cs starting at off: the
\* first offset from off on that is the end of the data or holds a
\* character outside cs.
RunEnd(data, off, cs) ==
    CHOOSE e \in off .. Len(data) :
        /\ e = Len(data) \/ data[e + 1] \notin cs
        /\ \A i \in off + 1 .. e : data[i] \in cs

SkipSpace(data, off) == RunEnd(data, off, SpaceChars)

\* re.sub("[ \t]+$", "", data, flags=re.MULTILINE): a character is dropped
\* when it is a space or tab and the run of spaces and tabs it is in ends
\* at a newline or at the end of the data.
EndsLine(data, e) == e = Len(data) \/ data[e + 1] = "\n"

\* The characters of s at the places at, in order.
Pick(s, at) == [ k \in 1 .. Len(at) |-> s[at[k]] ]

StripTrailing(data) ==
    LET kept(i) == ~ ( /\ data[i] \in { " ", "\t" }
                       /\ EndsLine(data, RunEnd(data, i, { " ", "\t" })) )
    IN  Pick(data, SelectSeq([ i \in 1 .. Len(data) |-> i ], kept))

\* A token: whether the pattern matched, the offset after the match (and
\* after the white space that follows it) and the matched text.
NoTok(off) == [ ok |-> FALSE, off |-> off, text |-> << >> ]

\* The match of data[off:e], if it has at least min characters.
RunTok(data, off, e, min, skip_space) ==
    IF e - off < min THEN NoTok(off)
    ELSE [ ok |-> TRUE,
           off |-> IF skip_space THEN SkipSpace(data, e) ELSE e,
           text |-> SubSeq(data, off + 1, e) ]

\* _try_tok for a pattern cs* (min = 0) or cs+ (min = 1), which is greedy.
TryTokRun(data, off, cs, min, skip_space) ==
    RunTok(data, off, RunEnd(data, off, cs), min, skip_space)

\* _try_tok for a pattern matching one character of cs.
TryTok(data, off, cs, skip_space) ==
    IF off < Len(data) /\ data[off + 1] \in cs
    THEN [ ok |-> TRUE,
           off |-> IF skip_space THEN SkipSpace(data, off + 1) ELSE off + 1,
           text |-> << data[off + 1] >> ]
    ELSE NoTok(off)

\* _try_tok(ID_RE)
TryTokId(data, off) ==
    IF off < Len(data) /\ data[off + 1] \in Digits
    THEN NoTok(off)
    ELSE TryTokRun(data, off, IdChars, 1, TRUE)

\* _tok: a failed match moves the offset one further and is fatal.
Tok(t) == IF t.ok THEN t ELSE [ t EXCEPT !.off = t.off + 1 ]

\* _scan_identifier: _tok(ID_RE), lowercased.
LowerTok(t) == [ t EXCEPT !.text = Lower(t.text) ]

ScanIdentifier(data, off) == LowerTok(Tok(TryTokId(data, off)))

\* _scan_balanced_text(term): the loop from offset off at depth level; start
\* is the offset the scan began at.
Balanced(fail, off, text, msg) ==
    [ fail |-> fail, off |-> off, text |-> text, msg |-> msg ]

RECURSIVE BalancedLoop(_, _, _, _, _)
BalancedLoop(data, start, off, level, term) ==
    IF off = Len(data)
    THEN Balanced(TRUE, off, << >>, "unterminated string")
    ELSE IF level = 0 /\ data[off + 1] = term
    THEN Balanced(FALSE, SkipSpace(data, off + 1), SubSeq(data, start + 1, off), "")
    ELSE IF data[off + 1] = "{"
    THEN BalancedLoop(data, start, off + 1, level + 1, term)
    ELSE IF data[off + 1] = "}"
    THEN IF level - 1 < 0
         THEN Balanced(TRUE, off, << >>, "unexpected }")
         ELSE BalancedLoop(data, start, off + 1, level - 1, term)
    ELSE BalancedLoop(data, start, off + 1, level, term)

\* A scan that ends at the first terminator, whatever the depth.
ScanBalancedFlat(data, off, term) ==
    LET hits == { t \in off + 1 .. Len(data) : data[t] = term }
        end(t) == Balanced(FALSE, SkipSpace(data, t), SubSeq(data, off + 1, t - 1), "")
    IN  IF hits = {} THEN Balanced(TRUE, Len(data), << >>, "unterminated string")
        ELSE end(CHOOSE t \in hits : \A u \in hits : t <= u)

ScanBalancedText(data, off, term) == BalancedLoop(data, off, off, 0, term)

\* ------------------------------------------------------------ macro table

\* A macro table is a function from lowercase names to values.
NoMacros == [ n \in {} |-> << >> ]

\* A table in which a name that is defined keeps its first value.
MacroSetFirst(macros, name, value) ==
    [ n \in DOMAIN macros \cup { name } |->
        IF n \in DOMAIN macros THEN macros[n] ELSE value ]

\* self.macros[name] = value
MacroSet(macros, name, value) ==
    [ n \in DOMAIN macros \cup { name } |-> IF n = name THEN value ELSE macros[n] ]

\* A warning is the pair of its kind and the name it is about.
Warning(kind, name) == << kind, name >>

\* ------------------------------------------------------------ field values

\* A value is its text and its macro tag; NoTag is a plain string.  pieces
\* records the kind of each piece the value was read from ("number",
\* "braced", "quoted", "macro" for an identifier found in the macro table,
\* "undefined" for one that is not) and plays no part in the program.
NoTag == << >>

Piece(fail, off, text, macro, warns, kind) ==
    [ fail |-> fail, off |-> off, text |-> text, macro |-> macro,
      warns |-> warns, kind |-> kind ]

\* A lookup in which an identifier that is not in the table stands for its
\* own name.
MacroLookupName(macros, piece, warn_macros) ==
    IF Lower(piece) \in DOMAIN macros
    THEN [ found |-> TRUE, value |-> macros[Lower(piece)], warns |-> << >> ]
    ELSE [ found |-> FALSE, value |-> piece,
           warns |-> IF warn_macros THEN << Warning("unknown macro", piece) >>
                     ELSE << >> ]

\* The lookup of an identifier piece: self.macros[piece.lower()], and the
\* warning and the empty string of the KeyError branch.
MacroLookup(macros, piece, warn_macros) ==
    IF Lower(piece) \in DOMAIN macros
    THEN [ found |-> TRUE, value |-> macros[Lower(piece)], warns |-> << >> ]
    ELSE [ found |-> FALSE, value |-> << >>,
           warns |-> IF warn_macros THEN << Warning("unknown macro", piece) >>
                     ELSE << >> ]

\* _scan_field_piece
ScanFieldPiece(data, off, macros, warn_macros) ==
    LET number(num) == Piece(FALSE, num.off, num.text, NoTag, << >>, "number")
        balanced(b, kind) == Piece(b.fail, b.off, b.text, NoTag, << >>, kind)
        macro(id, m) == Piece(FALSE, id.off, m.value, id.text, m.warns,
                              IF m.found THEN "macro" ELSE "undefined")
        piece(num, lbr, quo, id) ==
            IF num.ok THEN number(num)
            ELSE IF lbr.ok
            THEN balanced(ScanBalancedText(data, lbr.off, "}"), "braced")
            ELSE IF quo.ok
            THEN balanced(ScanBalancedText(data, quo.off, "\""), "quoted")
            ELSE IF id.ok
            THEN macro(id, MacroLookup(macros, id.text, warn_macros))
            ELSE Piece(TRUE, off, << >>, NoTag, << >>, "none")
    IN  piece(TryTokRun(data, off, Digits, 1, TRUE),
              TryTok(data, off, { "{" }, FALSE),
              TryTok(data, off, { "\"" }, FALSE),
              TryTokId(data, off))

\* re.sub("[ \t\n]+", " ", value): of each run of white space the first
\* character stays, as a space.
SpaceToBlank(s) == [ i \in DOMAIN s |-> IF s[i] \in SpaceChars THEN " " ELSE s[i] ]

CompressSpace(s) ==
    LET kept(i) == s[i] \notin SpaceChars \/ i = 1 \/ s[i - 1] \notin SpaceChars
    IN  SpaceToBlank(Pick(s, SelectSeq([ i \in 1 .. Len(s) |-> i ], kept)))

\* value.strip(" "): from the first to the last character that is no space.
StripSpace(s) ==
    LET between(solid) ==
            IF solid = {} THEN << >>
            ELSE SubSeq(s, CHOOSE i \in solid : \A j \in solid : i <= j,
                           CHOOSE i \in solid : \A j \in solid : i >= j)
    IN  between({ i \in 1 .. Len(s) : s[i] # " " })

\* A value that is stripped and whose white space is left as it is.
NormaliseEnds(text) == StripSpace(text)

\* The value as stored: white space compressed and stripped.
Normalise(text) == StripSpace(CompressSpace(text))

Value(fail, off, text, macro, warns, pieces) ==
    [ fail |-> fail, off |-> off, text |-> text, macro |-> macro,
      warns |-> warns, pieces |-> pieces ]

\* The loop of _scan_field_value: while a "#" follows, append the next piece
\* to the value v, which is a plain string from then on.
RECURSIVE ConcatLoop(_, _, _, _)
ConcatLoop(data, v, macros, warn_macros) ==
    LET append(p) ==
            IF p.fail
            THEN Value(TRUE, p.off, v.text, v.macro, v.warns, v.pieces)
            ELSE ConcatLoop(data,
                            Value(FALSE, p.off, v.text \o p.text, NoTag,
                                  v.warns \o p.warns, Append(v.pieces, p.kind)),
                            macros, warn_macros)
        hash(t) ==
            IF ~ t.ok THEN v
            ELSE append(ScanFieldPiece(data, t.off, macros, warn_macros))
    IN  hash(TryTok(data, v.off, { "#" }, TRUE))

\* _scan_field_value: the pieces, then the white space is compressed and
\* stripped and the macro tag of the assembled value put back.
ScanFieldValue(data, off, macros, warn_macros) ==
    LET store(v) == IF v.fail THEN v ELSE [ v EXCEPT !.text = Normalise(v.text) ]
        first(p) == Value(p.fail, p.off, p.text, p.macro, p.warns, << p.kind >>)
        value(p) ==
            IF p.fail THEN first(p)
            ELSE store(ConcatLoop(data, first(p), macros, warn_macros))
    IN  value(ScanFieldPiece(data, off, macros, warn_macros))

\* ------------------------------------------------------------ parser

\* Insertion-ordered dictionaries are sequences of records with a key
\* field; assigning to a key that is present keeps its place.
HasKey(d, f, k) == \E i \in DOMAIN d : d[i][f] = k

DictSet(d, f, item) ==
    IF HasKey(d, f, item[f])
    THEN [ i \in DOMAIN d |-> IF d[i][f] = item[f] THEN item ELSE d[i] ]
    ELSE Append(d, item)

DictGet(d, f, k) == d[CHOOSE i \in DOMAIN d : d[i][f] = k]

\* A field as read: its lowercase name, its value and the macro tag.
Field(name, value) ==
    [ name |-> name, text |-> value.text, macro |-> value.macro,
      pieces |-> value.pieces ]

\* A field loop in which a later field of a name replaces the earlier one.
KeepFieldLast(fields, field) == DictSet(fields, "name", field)

\* A field the loop has read: "if field in fields", the warning and
\* continue, else fields[field] = value.
KeepField(fields, field) ==
    IF HasKey(fields, "name", field.name) THEN fields ELSE Append(fields, field)

RepeatedField(fields, field) ==
    IF HasKey(fields, "name", field.name)
    THEN << Warning("repeated field", field.name) >>
    ELSE << >>

\* The field loop of _scan_command_or_entry, from offset off with the fields
\* and warnings collected so far; right is the closing delimiter.  raw
\* records every field read, kept or not, and plays no part in the program.
RECURSIVE FieldLoop(_, _, _, _, _, _, _, _)
FieldLoop(data, off, right, fields, raw, warns, macros, warn_macros) ==
    LET failed(o, w) == [ fail |-> TRUE, off |-> o, fields |-> fields,
                          raw |-> raw, warns |-> w ]
        closed(o)    == [ fail |-> FALSE, off |-> o, fields |-> fields,
                          raw |-> raw, warns |-> warns ]
        store(field, value) ==
            IF value.fail THEN failed(value.off, warns \o value.warns)
            ELSE FieldLoop(data, value.off, right,
                           KeepField(fields, Field(field.text, value)),
                           Append(raw, Field(field.text, value)),
                           (warns \o value.warns)
                               \o RepeatedField(fields, Field(field.text, value)),
                           macros, warn_macros)
        equals(field, eq) ==
            IF ~ eq.ok THEN failed(eq.off, warns)
            ELSE store(field, ScanFieldValue(data, eq.off, macros, warn_macros))
        name(field) ==
            IF ~ field.ok THEN failed(field.off, warns)
            ELSE equals(field, Tok(TryTok(data, field.off, { "=" }, TRUE)))
        after(comma, c2) ==
            IF c2.ok THEN closed(c2.off)
            ELSE IF comma.off = Len(data) THEN failed(comma.off, warns)
            ELSE name(ScanIdentifier(data, comma.off))
        turn(c1, comma) ==
            IF c1.ok THEN closed(c1.off)
            ELSE IF ~ comma.ok THEN failed(comma.off, warns)
            ELSE after(comma, TryTok(data, comma.off, { right }, FALSE))
    IN  turn(TryTok(data, off, { right }, FALSE),
             Tok(TryTok(data, off, { "," }, TRUE)))

\* What one call of _scan_command_or_entry yields: kind is "none" (None: end
\* of input), "fail" (BibtexError), "comment", "preamble", "string" or
\* "entry".  opened and closed record whether the opening and the closing
\* delimiter of the command were consumed, raw every field read and pieces
\* the pieces of a preamble or string value.
Scanned(kind, off, macros, warns, opened, closed) ==
    [ kind |-> kind, off |-> off, macros |-> macros, warns |-> warns,
      typ |-> << >>, key |-> << >>, fields |-> << >>, name |-> << >>,
      value |-> << >>, opened |-> opened, closed |-> closed, raw |-> << >>,
      pieces |-> << >> ]

\* typ == "preamble": the value, then the closing delimiter.
ScanPreamble(data, off, right, macros, warn_macros) ==
    LET close(value, r) ==
            IF ~ r.ok THEN Scanned("fail", r.off, macros, value.warns, TRUE, FALSE)
            ELSE [ Scanned("preamble", r.off, macros, value.warns, TRUE, TRUE)
                     EXCEPT !.value = value.text, !.pieces = value.pieces ]
        preamble(value) ==
            IF value.fail
            THEN Scanned("fail", value.off, macros, value.warns, TRUE, FALSE)
            ELSE close(value, Tok(TryTok(data, value.off, { right }, TRUE)))
    IN  preamble(ScanFieldValue(data, off, macros, warn_macros))

\* typ == "string": the name, "=", the value and the closing delimiter; the
\* macro is stored, with a warning if it was defined.
ScanString(data, off, right, macros, warn_macros) ==
    LET redefined(name) ==
            IF name.text \in DOMAIN macros
            THEN << Warning("redefined", name.text) >>
            ELSE << >>
        close(name, value, r) ==
            IF ~ r.ok THEN Scanned("fail", r.off, macros, value.warns, TRUE, FALSE)
            ELSE [ Scanned("string", r.off, MacroSet(macros, name.text, value.text),
                           value.warns \o redefined(name), TRUE, TRUE)
                     EXCEPT !.name = name.text, !.value = value.text,
                            !.pieces = value.pieces ]
        store(name, value) ==
            IF value.fail
            THEN Scanned("fail", value.off, macros, value.warns, TRUE, FALSE)
            ELSE close(name, value, Tok(TryTok(data, value.off, { right }, TRUE)))
        equals(name, eq) ==
            IF ~ eq.ok THEN Scanned("fail", eq.off, macros, << >>, TRUE, FALSE)
            ELSE store(name, ScanFieldValue(data, eq.off, macros, warn_macros))
        string(name) ==
            IF ~ name.ok THEN Scanned("fail", name.off, macros, << >>, TRUE, FALSE)
            ELSE equals(name, Tok(TryTok(data, name.off, { "=" }, TRUE)))
    IN  string(ScanIdentifier(data, off))

\* A database entry: the key, then the fields.
ScanEntry(data, off, typ, left, right, macros, warn_macros) ==
    LET entry(key, loop) ==
            IF loop.fail
            THEN Scanned("fail", loop.off, macros, loop.warns, TRUE, FALSE)
            ELSE [ Scanned("entry", loop.off, macros, loop.warns, TRUE, TRUE)
                     EXCEPT !.typ = typ, !.key = key.text,
                            !.fields = loop.fields, !.raw = loop.raw ]
        fields(key) ==
            entry(key, FieldLoop(data, key.off, right, << >>, << >>, << >>,
                                 macros, warn_macros))
    IN  IF left = "("
        THEN fields(TryTokRun(data, off, Chars \ { ",", " ", "\t", "\n" }, 0, TRUE))
        ELSE fields(TryTokRun(data, off, Chars \ { ",", " ", "\t", "}", "\n" }, 0, TRUE))

\* _scan_command_or_entry
ScanCommandOrEntry(data, off, macros, warn_macros) ==
    LET right(left) == IF left = "(" THEN ")" ELSE "}"
        open(typ, left) ==
            IF ~ left.ok
            THEN Scanned("fail", left.off, macros, << >>, FALSE, FALSE)
            ELSE IF typ.text = << "p", "r", "e", "a", "m", "b", "l", "e" >>
            THEN ScanPreamble(data, left.off, right(left.text[1]), macros, warn_macros)
            ELSE IF typ.text = << "s", "t", "r", "i", "n", "g" >>
            THEN ScanString(data, left.off, right(left.text[1]), macros, warn_macros)
            ELSE ScanEntry(data, left.off, typ.text, left.text[1],
                           right(left.text[1]), macros, warn_macros)
        command(typ) ==
            IF ~ typ.ok THEN Scanned("fail", typ.off, macros, << >>, FALSE, FALSE)
            ELSE IF typ.text = << "c", "o", "m", "m", "e", "n", "t" >>
            THEN Scanned("comment", typ.off, macros, << >>, FALSE, FALSE)
            ELSE open(typ, Tok(TryTok(data, typ.off, { "{", "(" }, TRUE)))
        start(at) ==
            IF ~ at.ok THEN Scanned("none", at.off, macros, << >>, FALSE, FALSE)
            ELSE command(ScanIdentifier(data, at.off))
        skip(noise) == start(TryTok(data, noise.off, { "@" }, TRUE))
    IN  skip(TryTokRun(data, off, Chars \ { "@" }, 0, TRUE))

\* ------------------------------------------------- the parser's loops

\* The loops of the parser, named by the place of the scan at their head:
\* the loop over the commands (iterparse), the loop over the fields of an
\* entry, the loop over "#" in a value and the loop of the balanced scan.
Loops == { "top", "fields", "concat", "balanced" }

\* Where the scan is after a step: at the head of a loop, or "returned" or
\* "raised"; the offset; the terminator and depth of the balanced scan; the
\* command being read (ctx) and its closing delimiter.
Goes(pc, off, term, level, ctx, right) ==
    [ pc |-> pc, off |-> off, term |-> term, level |-> level, ctx |-> ctx,
      right |-> right ]

\* The one element of a set of one element.  A step is computed from values:
\* each token is scanned once and then named, as the code keeps it in a
\* local variable.
One(S) == CHOOSE x \in S : TRUE

\* _scan_field_piece, up to its return or to the loop of the balanced scan.
PieceStep(data, off, ctx, right) ==
    LET piece(num, lbr, quo, id) ==
            IF num.ok THEN Goes("concat", num.off, "", 0, ctx, right)
            ELSE IF lbr.ok THEN Goes("balanced", lbr.off, "}", 0, ctx, right)
            ELSE IF quo.ok THEN Goes("balanced", quo.off, "\"", 0, ctx, right)
            ELSE IF id.ok THEN Goes("concat", id.off, "", 0, ctx, right)
            ELSE Goes("raised", off, "", 0, ctx, right)
    IN  One({ piece(num, lbr, quo, id) :
                num \in { TryTokRun(data, off, Digits, 1, TRUE) },
                lbr \in { TryTok(data, off, { "{" }, FALSE) },
                quo \in { TryTok(data, off, { "\"" }, FALSE) },
                id \in { TryTokId(data, off) } })

\* A balanced scan that stays where it is at a character that is no brace
\* and no terminator.
BalancedStepStuck(data, off, term, level, ctx, right) ==
    IF off = Len(data) THEN Goes("raised", off, term, level, ctx, right)
    ELSE IF level = 0 /\ data[off + 1] = term
    THEN Goes("concat", SkipSpace(data, off + 1), "", 0, ctx, right)
    ELSE IF data[off + 1] = "{"
    THEN Goes("balanced", off + 1, term, level + 1, ctx, right)
    ELSE IF data[off + 1] = "}"
    THEN IF level - 1 < 0 THEN Goes("raised", off, term, level - 1, ctx, right)
         ELSE Goes("balanced", off + 1, term, level - 1, ctx, right)
    ELSE Goes("balanced", off, term, level, ctx, right)

\* One turn of the loop of _scan_balanced_text.
BalancedStep(data, off, term, level, ctx, right) ==
    IF off = Len(data) THEN Goes("raised", off, term, level, ctx, right)
    ELSE IF level = 0 /\ data[off + 1] = term
    THEN Goes("concat", SkipSpace(data, off + 1), "", 0, ctx, right)
    ELSE IF data[off + 1] = "{"
    THEN Goes("balanced", off + 1, term, level + 1, ctx, right)
    ELSE IF data[off + 1] = "}"
    THEN IF level - 1 < 0 THEN Goes("raised", off, term, level - 1, ctx, right)
         ELSE Goes("balanced", off + 1, term, level - 1, ctx, right)
    ELSE Goes("balanced", off + 1, term, level, ctx, right)

\* One turn of the "#" loop of _scan_field_value: the next piece, or the
\* end of the value, after which a preamble or a string is closed and
\* yielded and an entry goes on with its fields.
ConcatStep(data, off, ctx, right) ==
    LET close(r) ==
            IF r.ok THEN Goes("top", r.off, "", 0, "none", "")
            ELSE Goes("raised", r.off, "", 0, ctx, right)
        hash(t) ==
            IF t.ok THEN PieceStep(data, t.off, ctx, right)
            ELSE IF ctx = "entry" THEN Goes("fields", off, "", 0, ctx, right)
            ELSE One({ close(r) : r \in { Tok(TryTok(data, off, { right }, TRUE)) } })
    IN  One({ hash(t) : t \in { TryTok(data, off, { "#" }, TRUE) } })

\* One turn of the field loop of _scan_command_or_entry, up to the first
\* piece of the value.
FieldStep(data, off, right) ==
    LET failed(o) == Goes("raised", o, "", 0, "entry", right)
        closed(o) == Goes("top", o, "", 0, "none", "")
        equals(eq) ==
            IF ~ eq.ok THEN failed(eq.off)
            ELSE PieceStep(data, eq.off, "entry", right)
        name(field) ==
            IF ~ field.ok THEN failed(field.off)
            ELSE One({ equals(eq) :
                         eq \in { Tok(TryTok(data, field.off, { "=" }, TRUE)) } })
        after(comma, c2) ==
            IF c2.ok THEN closed(c2.off)
            ELSE IF comma.off = Len(data) THEN failed(comma.off)
            ELSE One({ name(field) : field \in { ScanIdentifier(data, comma.off) } })
        turn(c1, comma) ==
            IF c1.ok THEN closed(c1.off)
            ELSE IF ~ comma.ok THEN failed(comma.off)
            ELSE One({ after(comma, c2) :
                         c2 \in { TryTok(data, comma.off, { right }, FALSE) } })
    IN  One({ turn(c1, comma) :
                c1 \in { TryTok(data, off, { right }, FALSE) },
                comma \in { Tok(TryTok(data, off, { "," }, TRUE)) } })

\* One turn of the loop of iterparse: _scan_command_or_entry, up to the
\* first loop it enters.
CommandStep(data, off) ==
    LET right(left) == IF left = "(" THEN ")" ELSE "}"
        failed(o) == Goes("raised", o, "", 0, "none", "")
        equals(eq, r) ==
            IF ~ eq.ok THEN failed(eq.off)
            ELSE PieceStep(data, eq.off, "string", r)
        string(name, r) ==
            IF ~ name.ok THEN failed(name.off)
            ELSE One({ equals(eq, r) :
                         eq \in { Tok(TryTok(data, name.off, { "=" }, TRUE)) } })
        entry(key, r) == Goes("fields", key.off, "", 0, "entry", r)
        open(typ, left) ==
            IF ~ left.ok THEN failed(left.off)
            ELSE IF typ.text = << "p", "r", "e", "a", "m", "b", "l", "e" >>
            THEN PieceStep(data, left.off, "preamble", right(left.text[1]))
            ELSE IF typ.text = << "s", "t", "r", "i", "n", "g" >>
            THEN One({ string(name, right(left.text[1])) :
                         name \in { ScanIdentifier(data, left.off) } })
            ELSE IF left.text[1] = "("
            THEN One({ entry(key, ")") :
                         key \in { TryTokRun(data, left.off,
                                             Chars \ { ",", " ", "\t", "\n" },
                                             0, TRUE) } })
            ELSE One({ entry(key, "}") :
                         key \in { TryTokRun(data, left.off,
                                             Chars \ { ",", " ", "\t", "}", "\n" },
                                             0, TRUE) } })
        command(typ) ==
            IF ~ typ.ok THEN failed(typ.off)
            ELSE IF typ.text = << "c", "o", "m", "m", "e", "n", "t" >>
            THEN Goes("top", typ.off, "", 0, "none", "")
            ELSE One({ open(typ, left) :
                         left \in { Tok(TryTok(data, typ.off, { "{", "(" }, TRUE)) } })
        start(at) ==
            IF ~ at.ok THEN Goes("returned", at.off, "", 0, "none", "")
            ELSE One({ command(typ) : typ \in { ScanIdentifier(data, at.off) } })
        skip(noise) ==
            One({ start(at) : at \in { TryTok(data, noise.off, { "@" }, TRUE) } })
    IN  One({ skip(noise) :
                noise \in { TryTokRun(data, off, Chars \ { "@" }, 0, TRUE) } })

\* ------------------------------------------------------------ loads

\* BibtexData: the preamble list, the strings and the entries, the last two
\* insertion-ordered dictionaries.
EmptyDoc == [ preamble |-> << >>, strings |-> << >>, entries |-> << >> ]

\* A loads in which the first entry of a key stays.
StoreItemFirst(doc, item) ==
    IF item.kind = "preamble"
    THEN [ doc EXCEPT !.preamble = Append(@, item.value) ]
    ELSE IF item.kind = "string"
    THEN [ doc EXCEPT !.strings =
               DictSet(@, "name", [ name |-> item.name, value |-> item.value ]) ]
    ELSE IF item.kind = "entry" /\ ~ HasKey(doc.entries, "key", item.key)
    THEN [ doc EXCEPT !.entries =
               Append(@, [ key |-> item.key, entry_type |-> item.typ,
                           fields |-> item.fields ]) ]
    ELSE doc

\* The body of the loop of loads for one item of iterparse.
StoreItem(doc, item) ==
    IF item.kind = "preamble"
    THEN [ doc EXCEPT !.preamble = Append(@, item.value) ]
    ELSE IF item.kind = "string"
    THEN [ doc EXCEPT !.strings =
               DictSet(@, "name", [ name |-> item.name, value |-> item.value ]) ]
    ELSE IF item.kind = "entry"
    THEN [ doc EXCEPT !.entries =
               DictSet(@, "key", [ key |-> item.key, entry_type |-> item.typ,
                                   fields |-> item.fields ]) ]
    ELSE doc

\* The warnings of one item: those of the scan, then that of loads.
ItemWarnings(doc, item) ==
    item.warns \o
        ( IF item.kind = "entry" /\ HasKey(doc.entries, "key", item.key)
          THEN << Warning("repeated entry", item.key) >>
          ELSE << >> )

\* loads, from offset off of the stripped data: fail is BibtexError, and
\* then there is no document.
RECURSIVE LoadsLoop(_, _, _, _, _, _)
LoadsLoop(data, off, macros, warn_macros, doc, warns) ==
    LET turn(item) ==
            IF item.kind = "fail"
            THEN [ fail |-> TRUE, doc |-> EmptyDoc, warns |-> warns \o item.warns ]
            ELSE IF item.kind = "none"
            THEN [ fail |-> FALSE, doc |-> doc, warns |-> warns ]
            ELSE LoadsLoop(data, item.off, item.macros, warn_macros,
                           StoreItem(doc, item), warns \o ItemWarnings(doc, item))
    IN  turn(ScanCommandOrEntry(data, off, macros, warn_macros))

Loads(text, macros, warn_macros) ==
    LoadsLoop(StripTrailing(text), 0, macros, warn_macros, EmptyDoc, << >>)

\* ------------------------------------------------------------ formatter

ORDER ==
    << << "a", "u", "t", "h", "o", "r" >>,
       << "t", "i", "t", "l", "e" >>,
       << "j", "o", "u", "r", "n", "a", "l" >>,
       << "k", "e", "y", "w", "o", "r", "d", "s" >>,
       << "y", "e", "a", "r" >>,
       << "m", "o", "n", "t", "h" >>,
       << "v", "o", "l", "u", "m", "e" >>,
       << "n", "u", "m", "b", "e", "r" >>,
       << "e", "i", "d" >>,
       << "p", "a", "g", "e", "s" >>,
       << "d", "o", "i" >>,
       << "a", "r", "c", "h", "i", "v", "e", "p", "r", "e", "f", "i", "x" >>,
       << "e", "p", "r", "i", "n", "t" >>,
       << "p", "r", "i", "m", "a", "r", "y", "c", "l", "a", "s", "s" >>,
       << "a", "d", "s", "u", "r", "l" >>,
       << "a", "d", "s", "n", "o", "t", "e" >> >>

\* PRETTY.get(field, field)
PRETTY(field) ==
    IF field = << "a", "r", "c", "h", "i", "v", "e", "p", "r", "e", "f", "i", "x" >>
    THEN << "a", "r", "c", "h", "i", "v", "e", "P", "r", "e", "f", "i", "x" >>
    ELSE IF field = << "p", "r", "i", "m", "a", "r", "y", "c", "l", "a", "s", "s" >>
    THEN << "p", "r", "i", "m", "a", "r", "y", "C", "l", "a", "s", "s" >>
    ELSE field

\* A sort key that knows no priority list.
OrderFieldsPlain(field) == << Len(ORDER), field >>

\* _order_fields: the sort key of a field name.
OrderFields(field) ==
    IF \E i \in DOMAIN ORDER : ORDER[i] = field
    THEN << (CHOOSE i \in DOMAIN ORDER : ORDER[i] = field) - 1, field >>
    ELSE << Len(ORDER), field >>

\* The order of two such keys, as Python orders tuples.
OrderLess(a, b) == a[1] < b[1] \/ (a[1] = b[1] /\ StrLess(a[2], b[2]))

\* REVERSE: the character map of the document sort.
REVERSE(c) ==
    IF Ord(c) >= 97 /\ Ord(c) <= 122 THEN Chr(97 + 122 - Ord(c))
    ELSE IF Ord(c) >= 65 /\ Ord(c) <= 90 THEN Chr(65 + 90 - Ord(c))
    ELSE IF Ord(c) >= 48 /\ Ord(c) <= 57 THEN Chr(48 + 57 - Ord(c))
    ELSE c

\* key.translate(REVERSE)
Translate(key) == [ i \in DOMAIN key |-> REVERSE(key[i]) ]

\* entry.get(name, "0")
FieldGet(entry, name) ==
    IF HasKey(entry.fields, "name", name)
    THEN DictGet(entry.fields, "name", name).text
    ELSE << "0" >>

\* sortkey_year: the sort key of an item (key, entry) of the entries.
SortkeyYear(entry) ==
    << FieldGet(entry, << "y", "e", "a", "r" >>),
       FieldGet(entry, << "m", "o", "n", "t", "h" >>),
       Translate(entry.key) >>

\* The order of two tuples of three strings, as Python orders tuples.
TupleLess(a, b) ==
    \/ StrLess(a[1], b[1])
    \/ a[1] = b[1] /\ StrLess(a[2], b[2])
    \/ a[1] = b[1] /\ a[2] = b[2] /\ StrLess(a[3], b[3])

\* Whether item x sorts strictly before item y: by _order_fields for the
\* fields of an entry, by sortkey_year with reverse=True for the entries.
SortsBefore(by, x, y) ==
    IF by = "fields"
    THEN OrderLess(OrderFields(x.name), OrderFields(y.name))
    ELSE TupleLess(SortkeyYear(y), SortkeyYear(x))

\* sorted(): a stable sort.  An item goes after every item already placed
\* that it does not sort strictly before.
RECURSIVE InsertSorted(_, _, _)
InsertSorted(sorted, x, by) ==
    IF sorted = << >> THEN << x >>
    ELSE IF SortsBefore(by, x, sorted[1]) THEN << x >> \o sorted
    ELSE << sorted[1] >> \o InsertSorted(Tail(sorted), x, by)

RECURSIVE SortedFrom(_, _, _, _)
SortedFrom(seq, i, acc, by) ==
    IF i > Len(seq) THEN acc
    ELSE SortedFrom(seq, i + 1, InsertSorted(acc, seq[i], by), by)

Sorted(seq, by) == SortedFrom(seq, 1, << >>, by)

\* sorted(self, key=_order_fields): the fields in the order they are emitted.
SortedFields(fields) == Sorted(fields, "fields")

\* dict(sorted(bib.entries.items(), key=sortkey_year, reverse=True))
SortedEntries(entries) == Sorted(entries, "year")

\* str.isdigit()
IsDigit(s) == s # << >> /\ \A i \in DOMAIN s : s[i] \in Digits

\* The width of the field name column.
FieldWidth == 13

\* f"{field:>13}"
PadLeft(s, width) ==
    IF Len(s) >= width THEN s ELSE [ i \in 1 .. width - Len(s) |-> " " ] \o s

\* A formatter that writes every value as a literal, tagged or not.
FormatValueNoTag(field, f) ==
    IF field = << "t", "i", "t", "l", "e" >>
    THEN << "\"", "{" >> \o f.text \o << "}", "\"" >>
    ELSE IF field = << "y", "e", "a", "r" >> /\ IsDigit(f.text)
    THEN f.text
    ELSE << "{" >> \o f.text \o << "}" >>

\* A formatter that puts braces and quotes around every title.
FormatValueBraced(field, f) ==
    IF f.macro # << >> THEN f.macro
    ELSE IF field = << "t", "i", "t", "l", "e" >>
    THEN << "\"", "{" >> \o f.text \o << "}", "\"" >>
    ELSE IF field = << "y", "e", "a", "r" >> /\ IsDigit(f.text)
    THEN f.text
    ELSE << "{" >> \o f.text \o << "}" >>

\* The value of a field as BibtexFields.__format__ writes it; field is the
\* name after the PRETTY substitution.
FormatValue(field, f) ==
    IF f.macro # << >> THEN f.macro
    ELSE IF field = << "t", "i", "t", "l", "e" >>
    THEN IF f.text # << >> /\ f.text[1] = "{" /\ f.text[Len(f.text)] = "}"
         THEN << "\"" >> \o f.text \o << "\"" >>
         ELSE << "\"", "{" >> \o f.text \o << "}", "\"" >>
    ELSE IF field = << "y", "e", "a", "r" >> /\ IsDigit(f.text)
    THEN f.text
    ELSE << "{" >> \o f.text \o << "}" >>

\* One field: ",\n", the name in its column, " = " and the value.
FormatField(field, f) ==
    << ",", "\n" >> \o PadLeft(field, FieldWidth) \o << " ", "=", " " >>
        \o FormatValue(field, f)

RECURSIVE FormatFields(_)
FormatFields(fields) ==
    IF fields = << >> THEN << >>
    ELSE FormatField(PRETTY(fields[1].name), fields[1]) \o FormatFields(Tail(fields))

\* BibtexFields.__format__
Format(entry, key) ==
    << "@" >> \o Upper(entry.entry_type) \o << "{" >> \o key \o
        ( IF Len(entry.fields) = 0 THEN << "}" >>
          ELSE FormatFields(SortedFields(entry.fields)) \o << "\n", "}" >> )

\* iterdump: the lines of the formatted document.
IterDump(bib) ==
    ( IF bib.preamble # << >>
      THEN [ i \in DOMAIN bib.preamble |->
               << "@", "P", "R", "E", "A", "M", "B", "L", "E", "{", "\"" >>
                   \o bib.preamble[i] \o << "\"", "}" >> ] \o << << >> >>
      ELSE << >> )
    \o
    ( IF bib.strings # << >>
      THEN [ i \in DOMAIN bib.strings |->
               << "@", "S", "T", "R", "I", "N", "G", "{" >> \o bib.strings[i].name
                   \o << " ", "=", " ", "\"" >> \o bib.strings[i].value
                   \o << "\"", "}" >> ] \o << << >> >>
      ELSE << >> )
    \o
    [ i \in 1 .. 2 * Len(bib.entries) |->
        IF i % 2 = 1
        THEN Format(bib.entries[(i + 1) \div 2], bib.entries[(i + 1) \div 2].key)
        ELSE << >> ]

\* dump: every line is written with a newline after it.
DumpLines(lines) ==
    IF lines = << >> THEN << >>
    ELSE Join(lines, << "\n" >>) \o << "\n" >>

Dump(bib) == DumpLines(IterDump(bib))

\* dumps
Dumps(bib) == Join(IterDump(bib), << "\n" >>)

\* ------------------------------------------------------------ parse and format

\* MACROS: the default macros of tidybib, the month names.
MACROS ==
    (<< "j", "a", "n" >> :> << "0", "1" >>) @@
    (<< "f", "e", "b" >> :> << "0", "2" >>) @@
    (<< "m", "a", "r" >> :> << "0", "3" >>) @@
    (<< "a", "p", "r" >> :> << "0", "4" >>) @@
    (<< "m", "a", "y" >> :> << "0", "5" >>) @@
    (<< "j", "u", "n" >> :> << "0", "6" >>) @@
    (<< "j", "u", "l" >> :> << "0", "7" >>) @@
    (<< "a", "u", "g" >> :> << "0", "8" >>) @@
    (<< "s", "e", "p" >> :> << "0", "9" >>) @@
    (<< "o", "c", "t" >> :> << "1", "0" >>) @@
    (<< "n", "o", "v" >> :> << "1", "1" >>) @@
    (<< "d", "e", "c" >> :> << "1", "2" >>)

\* The commands the input texts are made of.
Commands ==
    <<
        \* @a{k, title = {A}, year = 2020}
        << "@", "a", "{", "k", ",", " ", "t", "i", "t", "l", "e", " ", "=",
           " ", "{", "A", "}", ",", " ", "y", "e", "a", "r", " ", "=", " ",
           "2", "0", "2", "0", "}" >>,
        \* @b{k, year = {x}, Year = 2001, zz = jan # feb}
        << "@", "b", "{", "k", ",", " ", "y", "e", "a", "r", " ", "=", " ",
           "{", "x", "}", ",", " ", "Y", "e", "a", "r", " ", "=", " ", "2",
           "0", "0", "1", ",", " ", "z", "z", " ", "=", " ", "j", "a", "n",
           " ", "#", " ", "f", "e", "b", "}" >>,
        \* @a(k}j, month = foo # "", year = 1 # 2, zz = jan)
        << "@", "a", "(", "k", "}", "j", ",", " ", "m", "o", "n", "t", "h",
           " ", "=", " ", "f", "o", "o", " ", "#", " ", "\"", "\"", ",", " ",
           "y", "e", "a", "r", " ", "=", " ", "1", " ", "#", " ", "2", ",",
           " ", "z", "z", " ", "=", " ", "j", "a", "n", ")" >>,
        \* @preamble("a" # {"} )
        << "@", "p", "r", "e", "a", "m", "b", "l", "e", "(", "\"", "a", "\"",
           " ", "#", " ", "{", "\"", "}", " ", ")" >>,
        \* @string{foo = " v \t w "}
        << "@", "s", "t", "r", "i", "n", "g", "{", "f", "o", "o", " ", "=",
           " ", "\"", " ", "v", " ", "\t", " ", "w", " ", "\"", "}" >>,
        \* @string{jan = foo}
        << "@", "s", "t", "r", "i", "n", "g", "{", "j", "a", "n", " ", "=",
           " ", "f", "o", "o", "}" >>,
        \* @a{j, title = {unterminated}
        << "@", "a", "{", "j", ",", " ", "t", "i", "t", "l", "e", " ", "=",
           " ", "{", "u", "n", "t", "e", "r", "m", "i", "n", "a", "t", "e",
           "d", "}" >>,
        \* @comment{x} junk
        << "@", "c", "o", "m", "m", "e", "n", "t", "{", "x", "}", " ", "j",
           "u", "n", "k" >>,
        \* @a{j, zz = 1, primaryclass = {c}, ab = "{"}", author = foo, title = {{T}}}
        << "@", "a", "{", "j", ",", " ", "z", "z", " ", "=", " ", "1", ",",
           " ", "p", "r", "i", "m", "a", "r", "y", "c", "l", "a", "s", "s",
           " ", "=", " ", "{", "c", "}", ",", " ", "a", "b", " ", "=", " ",
           "\"", "{", "\"", "}", "\"", ",", " ", "a", "u", "t", "h", "o",
           "r", " ", "=", " ", "f", "o", "o", ",", " ", "t", "i", "t", "l",
           "e", " ", "=", " ", "{", "{", "T", "}", "}", "}" >>,
        \* @c{,}
        << "@", "c", "{", ",", "}" >>,
        \* @a{j, x = "a}"}
        << "@", "a", "{", "j", ",", " ", "x", " ", "=", " ", "\"", "a", "}",
           "\"", "}" >>
    >>

\* An input text is at most MaxCommands commands, one per line.
MaxCommands == 2

RECURSIVE CommandLists(_)
CommandLists(n) ==
    IF n = 0 THEN { << >> }
    ELSE CommandLists(n - 1) \cup
         { Append(l, c) : l \in { x \in CommandLists(n - 1) : Len(x) = n - 1 },
                          c \in DOMAIN Commands }

Texts ==
    { Join([ i \in DOMAIN l |-> Commands[l[i]] ], << "\n" >>) :
        l \in CommandLists(MaxCommands) \ { << >> } }

VARIABLES
    text,         \* loads: the data it is given
    macros0,      \* loads: the macros it is given
    warn_macros,  \* loads: the flag it is given
    data,         \* BibtexParser.data
    off,          \* BibtexParser.off
    macros,       \* BibtexParser.macros
    doc,          \* loads: preamble, strings and entries so far
    warnings,     \* the warnings emitted so far
    trace,        \* the items iterparse has yielded so far, each with the
                  \* offset and the macros its scan started from
    pc,           \* "scan", "raised", "returned", "dumped", "reloaded", "redumped"
    bib,          \* what loads returned: << >> before it returns, << D >> after
    out,          \* dumps(D)
    again,        \* loads(dumps(D)) with the same macros
    out2          \* dumps(loads(dumps(D)))

loadvars == << text, macros0, warn_macros, data, off, macros, doc, warnings,
               trace, pc, bib, out, again, out2 >>

VARIABLES
    unsorted,     \* main: bib.entries, as loaded
    sorted        \* main: << >>, or << the entries after the sort >>

sortvars == << unsorted, sorted >>

VARIABLES
    bibfile,      \* main: args.bibfile, the files named on the command line
    stdout_flag,  \* main: args.stdout
    fs,           \* the files that exist: path |-> contents
    stdin,        \* what is left to read of the standard input
    printed,      \* what was written to the standard output
    file_i,       \* main: the place in bibfile of the file the loop is at
    mpc,          \* main: the step the loop is at
    newtext,      \* main: the text dump writes for the file the loop is at
    original,     \* the files as they were when the loop came to that file
    handled,      \* the places in bibfile the loop has come to
    outcome       \* how the replace step for that file has ended, once it has

mainvars == << bibfile, stdout_flag, fs, stdin, printed, file_i, mpc, newtext,
               original, handled, outcome >>

VARIABLES
    call,         \* << >>, or the one function called and its arguments
    result        \* << >>, or << what that call gave >>

callvars == << call, result >>

VARIABLES
    frame         \* the scan in progress, when loads is run loop by loop

stepvars == << frame >>

vars == << loadvars, sortvars, mainvars, callvars, stepvars >>

NotLoaded == [ fail |-> FALSE, doc |-> EmptyDoc, warns |-> << >> ]

\* Nothing is being parsed.
LoadIdle ==
    /\ text = << >> /\ macros0 = NoMacros /\ warn_macros = FALSE
    /\ data = << >> /\ off = 0 /\ macros = NoMacros /\ doc = EmptyDoc
    /\ warnings = << >> /\ trace = << >> /\ pc = "idle" /\ bib = << >>
    /\ out = << >> /\ again = NotLoaded /\ out2 = << >>

\* Nothing is being sorted.
SortIdle == unsorted = << >> /\ sorted = << >>

\* main is not running.
MainIdle ==
    /\ bibfile = << >> /\ stdout_flag = FALSE /\ fs = << >> /\ stdin = << >>
    /\ printed = << >> /\ file_i = 0 /\ mpc = "idle" /\ newtext = << >>
    /\ original = << >> /\ handled = {} /\ outcome = << >>

\* No function is called on its own.
CallIdle == call = << >> /\ result = << >>

\* loads is not run loop by loop.
StepIdle == frame = << >>

\* loads is called: the parser is created and iterparse resets it.
Init ==
    /\ text \in Texts
    /\ macros0 \in { NoMacros, MACROS }
    /\ warn_macros \in BOOLEAN
    /\ data = StripTrailing(text)
    /\ off = 0
    /\ macros = macros0
    /\ doc = EmptyDoc
    /\ warnings = << >>
    /\ trace = << >>
    /\ pc = "scan"
    /\ bib = << >>
    /\ out = << >>
    /\ again = NotLoaded
    /\ out2 = << >>
    /\ SortIdle
    /\ MainIdle
    /\ CallIdle
    /\ StepIdle

\* An item as the trace keeps it.
Yielded(item) == [ from |-> off, given |-> macros ] @@ item

\* A loads that returns what it has when the scan fails.
TurnPartial(item) ==
    /\ off' = item.off
    /\ IF item.kind \in { "fail", "none" }
       THEN /\ bib' = << doc >>
            /\ pc' = "returned"
            /\ warnings' = warnings \o item.warns
            /\ trace' = IF item.kind = "fail" THEN Append(trace, Yielded(item))
                                              ELSE trace
            /\ UNCHANGED << macros, doc >>
       ELSE /\ macros' = item.macros
            /\ doc' = StoreItem(doc, item)
            /\ warnings' = warnings \o ItemWarnings(doc, item)
            /\ trace' = Append(trace, Yielded(item))
            /\ UNCHANGED << pc, bib >>

\* One turn of the loop of loads: iterparse yields an item and loads stores
\* it; or the scan raises BibtexError, and so does loads; or the scan
\* returns None, iterparse ends and loads returns the document.
Turn(item) ==
    /\ off' = item.off
    /\ IF item.kind = "fail"
       THEN /\ warnings' = warnings \o item.warns
            /\ trace' = Append(trace, Yielded(item))
            /\ pc' = "raised"
            /\ UNCHANGED << macros, doc, bib >>
       ELSE IF item.kind = "none"
       THEN /\ bib' = << doc >>
            /\ pc' = "returned"
            /\ UNCHANGED << macros, doc, warnings, trace >>
       ELSE /\ macros' = item.macros
            /\ doc' = StoreItem(doc, item)
            /\ warnings' = warnings \o ItemWarnings(doc, item)
            /\ trace' = Append(trace, Yielded(item))
            /\ UNCHANGED << pc, bib >>

Scan ==
    /\ pc = "scan"
    /\ Turn(ScanCommandOrEntry(data, off, macros, warn_macros))
    /\ UNCHANGED << text, macros0, warn_macros, data, out, again, out2 >>
    /\ UNCHANGED << sortvars, mainvars, callvars, stepvars >>

\* dumps(D)
DumpDoc ==
    /\ pc = "returned"
    /\ out' = Dumps(bib[1])
    /\ pc' = "dumped"
    /\ UNCHANGED << text, macros0, warn_macros, data, off, macros, doc, warnings,
                    trace, bib, again, out2 >>
    /\ UNCHANGED << sortvars, mainvars, callvars, stepvars >>

\* loads(dumps(D)) with the macros and the flag of the first parse.
Reload ==
    /\ pc = "dumped"
    /\ again' = Loads(out, macros0, warn_macros)
    /\ pc' = "reloaded"
    /\ UNCHANGED << text, macros0, warn_macros, data, off, macros, doc, warnings,
                    trace, bib, out, out2 >>
    /\ UNCHANGED << sortvars, mainvars, callvars, stepvars >>

\* dumps(loads(dumps(D))), when the second parse returned a document.
Redump ==
    /\ pc = "reloaded"
    /\ ~ again.fail
    /\ out2' = Dumps(again.doc)
    /\ pc' = "redumped"
    /\ UNCHANGED << text, macros0, warn_macros, data, off, macros, doc, warnings,
                    trace, bib, out, again >>
    /\ UNCHANGED << sortvars, mainvars, callvars, stepvars >>

Next == Scan \/ DumpDoc \/ Reload \/ Redump

Spec == Init /\ [][Next]_vars

\* ------------------------------------------------------------ the document sort

\* The keys, years and months of the entries that are sorted; << >> is an
\* entry without the field.
Keys == { << "a" >>, << "a", "b" >>, << "b" >>, << "c" >> }

Years == { << >>, << << "2", "0", "1", "9" >> >>, << << "2", "0", "2", "0" >> >> }

Months == { << >>, << << "0", "5" >> >> }

\* A field written as a number.
NumberField(name, txt) ==
    [ name |-> name, text |-> txt, macro |-> NoTag, pieces |-> << "number" >> ]

\* An entry with this key and, if given, this year and month.
MkEntry(key, year, month) ==
    [ key |-> key, entry_type |-> << "a" >>,
      fields |-> [ i \in DOMAIN year |-> NumberField(<< "y", "e", "a", "r" >>, year[i]) ]
                 \o [ i \in DOMAIN month |-> NumberField(<< "m", "o", "n", "t", "h" >>, month[i]) ] ]

\* The entries of a document are at most MaxEntries, with different keys.
MaxEntries == 3

RECURSIVE EntryLists(_)
EntryLists(n) ==
    IF n = 0 THEN { << >> }
    ELSE EntryLists(n - 1) \cup
         { Append(l, MkEntry(k, y, m)) :
             l \in { x \in EntryLists(n - 1) : Len(x) = n - 1 },
             k \in Keys, y \in Years, m \in Months }

DistinctKeys(l) == \A i, j \in DOMAIN l : i # j => l[i].key # l[j].key

\* main has loaded a document.
SortInit ==
    /\ unsorted \in { l \in EntryLists(MaxEntries) : l # << >> /\ DistinctKeys(l) }
    /\ sorted = << >>
    /\ LoadIdle
    /\ MainIdle
    /\ CallIdle
    /\ StepIdle

\* bib._replace(entries=dict(sorted(..., key=sortkey_year, reverse=True)))
SortEntries ==
    /\ sorted = << >>
    /\ sorted' = << SortedEntries(unsorted) >>
    /\ UNCHANGED << unsorted, loadvars, mainvars, callvars, stepvars >>

SortNext == SortEntries

SpecSort == SortInit /\ [][SortNext]_vars

\* ------------------------------------------------------------ main

\* The standard input and output, as a file name.
Dash == << "-" >>

\* name.lstrip(".")
LStripDots(name) ==
    IF \A i \in DOMAIN name : name[i] = "." THEN << >>
    ELSE SubSeq(name, CHOOSE i \in DOMAIN name :
                          name[i] # "." /\ \A j \in 1 .. i - 1 : name[j] = ".",
                Len(name))

\* _tmpname, for a file name with no directory part, which os.path.split
\* and os.path.join leave as it is.
Tmpname(file) ==
    IF file = Dash THEN Dash
    ELSE (<< "." >> \o LStripDots(file)) \o << ".", "t", "i", "d", "y" >>

\* _bakname
Bakname(file) ==
    IF file = Dash THEN << >>
    ELSE file \o << ".", "u", "n", "t", "i", "d", "y" >>

\* The files that exist are a function from their paths to their contents.
NoFiles == [ p \in {} |-> << >> ]

Exists(files, p) == p \in DOMAIN files

\* open(p, "w"), write and close.
WriteFile(files, p, contents) ==
    [ q \in DOMAIN files \cup { p } |-> IF q = p THEN contents ELSE files[q] ]

\* os.unlink(p)
Unlink(files, p) == [ q \in DOMAIN files \ { p } |-> files[q] ]

\* os.rename(a, b) of an existing file a, which replaces b.
Rename(files, a, b) ==
    IF a = b THEN files ELSE WriteFile(Unlink(files, a), b, files[a])

\* The files main is run on, and what they and the standard input hold: a
\* text that is not in standard form, its standard form, and a text that
\* does not parse.
FileNames == { << "a" >>, << "b" >>, Dash }

Untidy == << "@", "a", "{", "k", "}" >>

Tidy == << "@", "A", "{", "k", "}", "\n", "\n" >>

Broken == << "@", "a", "{", "k" >>

Contents == { Untidy, Tidy, Broken }

\* The command line names at most MaxFiles files.
MaxFiles == 2

RECURSIVE FileLists(_)
FileLists(n) ==
    IF n = 0 THEN { << >> }
    ELSE FileLists(n - 1) \cup
         { Append(l, f) : l \in { x \in FileLists(n - 1) : Len(x) = n - 1 },
                          f \in FileNames }

\* Every way for some of the paths to exist, with contents of cs.
RECURSIVE FileSystems(_, _)
FileSystems(paths, cs) ==
    IF paths = {} THEN { NoFiles }
    ELSE LET p == CHOOSE p \in paths : TRUE
         IN  UNION { { files } \cup { WriteFile(files, p, c) : c \in cs } :
                       files \in FileSystems(paths \ { p }, cs) }

\* main is called: the files named may exist or not, and a backup of the
\* first may be left from an earlier run.
MainInit ==
    /\ bibfile \in FileLists(MaxFiles) \ { << >> }
    /\ stdout_flag \in BOOLEAN
    /\ \E files \in FileSystems(FileNames \ { Dash }, Contents) :
           fs \in { files, WriteFile(files, Bakname(<< "a" >>), Tidy) }
    /\ stdin \in { Untidy, Broken }
    /\ printed = << >>
    /\ file_i = 1
    /\ mpc = "load"
    /\ newtext = << >>
    /\ original = NoFiles
    /\ handled = {}
    /\ outcome = << >>
    /\ LoadIdle
    /\ SortIdle
    /\ CallIdle
    /\ StepIdle

\* The file the loop is at, its temporary output and its backup.
File == bibfile[file_i]

Out == IF stdout_flag THEN Dash ELSE Tmpname(File)

Bak == Bakname(File)

\* bib._replace(entries=dict(sorted(...)))
SortDoc(d) == [ d EXCEPT !.entries = SortedEntries(@) ]

\* The loop goes on to the next file, or main returns 0.
NextFile ==
    /\ file_i' = file_i + 1
    /\ mpc' = IF file_i + 1 > Len(bibfile) THEN "done" ELSE "load"

\* biblib.load(fp, macros=MACROS, warn_macros=False) of what was read, and
\* the sort: the text to write, or BibtexError.
Loaded(contents, r) ==
    /\ handled' = handled \cup { file_i }
    /\ original' = fs
    /\ outcome' = << >>
    /\ IF r.fail
       THEN mpc' = "raised" /\ UNCHANGED newtext
       ELSE mpc' = "write" /\ newtext' = Dump(SortDoc(r.doc))
    /\ UNCHANGED << bibfile, stdout_flag, fs, printed, file_i >>

\* The top of the loop: open and read the file, or the standard input;
\* FileNotFoundError if there is no such file.
MainLoad ==
    /\ mpc = "load"
    /\ IF File = Dash
       THEN /\ Loaded(stdin, Loads(stdin, MACROS, FALSE))
            /\ stdin' = << >>
       ELSE IF Exists(fs, File)
       THEN /\ Loaded(fs[File], Loads(fs[File], MACROS, FALSE))
            /\ UNCHANGED stdin
       ELSE /\ handled' = handled \cup { file_i }
            /\ mpc' = "raised"
            /\ outcome' = << >>
            /\ UNCHANGED << bibfile, stdout_flag, fs, stdin, printed, file_i,
                            newtext, original >>
    /\ UNCHANGED << loadvars, sortvars, callvars, stepvars >>

\* The document is written to the standard output, and the loop continues;
\* or to the temporary file; or opening or writing the temporary file
\* fails, with the file as it was, or created and empty.
MainWrite ==
    /\ mpc = "write"
    /\ IF Out = Dash
       THEN /\ printed' = printed \o newtext
            /\ NextFile
            /\ UNCHANGED fs
       ELSE /\ \/ fs' = WriteFile(fs, Out, newtext) /\ mpc' = "compare"
               \/ fs' \in { fs, WriteFile(fs, Out, << >>) } /\ mpc' = "raised"
            /\ UNCHANGED << printed, file_i >>
    /\ UNCHANGED << bibfile, stdout_flag, stdin, newtext, original, handled,
                    outcome, loadvars, sortvars,
                    callvars, stepvars >>

\* filecmp.cmp(file, out, shallow=False); if the files are equal,
\* os.unlink(out), which may fail.
MainCompare ==
    /\ mpc = "compare"
    /\ IF fs[File] = fs[Out]
       THEN \/ /\ fs' = Unlink(fs, Out)
               /\ outcome' = << [ file |-> File, how |-> "same" ] >>
               /\ NextFile
            \/ /\ outcome' = << [ file |-> File, how |-> "unlink failed" ] >>
               /\ mpc' = "raised"
               /\ UNCHANGED << fs, file_i >>
       ELSE /\ mpc' = "unlink"
            /\ UNCHANGED << fs, file_i, outcome >>
    /\ UNCHANGED << bibfile, stdout_flag, stdin, printed, newtext, original,
                    handled, loadvars, sortvars,
                    callvars, stepvars >>

\* os.unlink(bak), whose failure is passed over.
MainUnlinkBak ==
    /\ mpc = "unlink"
    /\ fs' \in { fs, Unlink(fs, Bak) }
    /\ mpc' = "rename_bak"
    /\ UNCHANGED << bibfile, stdout_flag, stdin, printed, file_i, newtext,
                    original, handled, outcome, loadvars, sortvars,
                    callvars, stepvars >>

\* os.rename(file, bak); if it fails, cleanup is false and the error ends main.
MainRenameBak ==
    /\ mpc = "rename_bak"
    /\ \/ /\ fs' = Rename(fs, File, Bak)
          /\ mpc' = "rename_out"
          /\ UNCHANGED outcome
       \/ /\ outcome' = << [ file |-> File, how |-> "rename to backup failed" ] >>
          /\ mpc' = "raised"
          /\ UNCHANGED fs
    /\ UNCHANGED << bibfile, stdout_flag, stdin, printed, file_i, newtext,
                    original, handled, loadvars, sortvars,
                    callvars, stepvars >>

\* os.rename(out, file); if it fails, cleanup is true.
MainRenameOut ==
    /\ mpc = "rename_out"
    /\ \/ /\ fs' = Rename(fs, Out, File)
          /\ outcome' = << [ file |-> File, how |-> "replaced" ] >>
          /\ NextFile
       \/ /\ mpc' = "revert"
          /\ UNCHANGED << fs, file_i, outcome >>
    /\ UNCHANGED << bibfile, stdout_flag, stdin, printed, newtext, original,
                    handled, loadvars, sortvars,
                    callvars, stepvars >>

\* A main that does not put the backup back.
MainRevertNone ==
    /\ mpc = "revert"
    /\ outcome' = << [ file |-> File, how |-> "reverted" ] >>
    /\ mpc' = "raised"
    /\ UNCHANGED << bibfile, stdout_flag, fs, stdin, printed, file_i, newtext,
                    original, handled, loadvars, sortvars,
                    callvars, stepvars >>

\* finally: os.rename(bak, file), which may fail as well; the error of the
\* rename that failed, or this one, ends main.
MainRevert ==
    /\ mpc = "revert"
    /\ \/ /\ fs' = Rename(fs, Bak, File)
          /\ outcome' = << [ file |-> File, how |-> "reverted" ] >>
       \/ /\ outcome' = << [ file |-> File, how |-> "revert failed" ] >>
          /\ UNCHANGED fs
    /\ mpc' = "raised"
    /\ UNCHANGED << bibfile, stdout_flag, stdin, printed, file_i, newtext,
                    original, handled, loadvars, sortvars,
                    callvars, stepvars >>

MainNext ==
    \/ MainLoad \/ MainWrite \/ MainCompare \/ MainUnlinkBak
    \/ MainRenameBak \/ MainRenameOut \/ MainRevert

SpecMain == MainInit /\ [][MainNext]_vars

\* ------------------------------------------------- loads, loop by loop

\* loads is called with its default arguments.  frame.at keeps, for each
\* loop, the offset the scan had when it last came to the head of the loop.
StepInit ==
    /\ text \in Texts
    /\ macros0 = NoMacros
    /\ warn_macros = TRUE
    /\ data = StripTrailing(text)
    /\ off = 0
    /\ macros = macros0
    /\ doc = EmptyDoc
    /\ warnings = << >>
    /\ trace = << >>
    /\ pc = "top"
    /\ bib = << >>
    /\ out = << >>
    /\ again = NotLoaded
    /\ out2 = << >>
    /\ frame = [ term |-> "", level |-> 0, ctx |-> "none", right |-> "",
                 at |-> [ l \in Loops |-> IF l = "top" THEN 0 ELSE 0 - 1 ] ]
    /\ SortIdle
    /\ MainIdle
    /\ CallIdle

\* The scan goes where g says.
Arrive(g) ==
    /\ pc' = g.pc
    /\ off' = g.off
    /\ frame' = [ term |-> g.term, level |-> g.level, ctx |-> g.ctx,
                  right |-> g.right,
                  at |-> IF g.pc \in Loops THEN [ frame.at EXCEPT ![g.pc] = g.off ]
                         ELSE frame.at ]
    /\ UNCHANGED << text, macros0, warn_macros, data, macros, doc, warnings,
                    trace, bib, out, again, out2 >>
    /\ UNCHANGED << sortvars, mainvars, callvars >>

StepCommand ==
    /\ pc = "top"
    /\ \E g \in { CommandStep(data, off) } : Arrive(g)

StepField ==
    /\ pc = "fields"
    /\ \E g \in { FieldStep(data, off, frame.right) } : Arrive(g)

StepConcat ==
    /\ pc = "concat"
    /\ \E g \in { ConcatStep(data, off, frame.ctx, frame.right) } : Arrive(g)

StepBalanced ==
    /\ pc = "balanced"
    /\ \E g \in { BalancedStep(data, off, frame.term, frame.level, frame.ctx,
                                 frame.right) } : Arrive(g)

StepNext == StepCommand \/ StepField \/ StepConcat \/ StepBalanced

\* The parser is one thread that runs until it returns or raises: a turn of
\* a loop that can be taken is taken.
SpecSteps == StepInit /\ [][StepNext]_vars /\ WF_vars(StepNext)

\* ------------------------------------------------- one function, called

\* The sequences over S of at most n elements.
Strings(S, n) == UNION { [ 1 .. k -> S ] : k \in 0 .. n }

\* The braces open after the first i characters of s.
Depth(s, i) ==
    Cardinality({ k \in 1 .. i : s[k] = "{" })
        - Cardinality({ k \in 1 .. i : s[k] = "}" })

\* The braces of s match: what a field value is made of, since every piece
\* the scanner reads is balanced.
Nested(s) ==
    /\ \A i \in 1 .. Len(s) : Depth(s, i) >= 0
    /\ Depth(s, Len(s)) = 0

MaxValue == 4

ValueChars == { "{", "}", "a", "1" }

\* The field values handed to the formatter: a text, tagged or not.
FieldValues ==
    { [ name |-> << >>, text |-> t, macro |-> g, pieces |-> << >> ] :
        t \in { t \in Strings(ValueChars, MaxValue) : Nested(t) },
        g \in { NoTag, << "m" >> } }

FieldNames == { << "t", "i", "t", "l", "e" >>, << "y", "e", "a", "r" >>,
                << "z", "z" >> }

\* A BibtexFields of one field is about to be formatted.
FormatInit ==
    /\ call \in { [ fn |-> "format", field |-> n, value |-> f ] :
                     n \in FieldNames, f \in FieldValues }
    /\ result = << >>
    /\ LoadIdle
    /\ SortIdle
    /\ MainIdle
    /\ StepIdle

\* BibtexFields.__format__, the part that is written for the one field.
FormatCall ==
    /\ call # << >> /\ call.fn = "format" /\ result = << >>
    /\ result' = << FormatField(PRETTY(call.field), call.value) >>
    /\ UNCHANGED << call, loadvars, sortvars, mainvars, stepvars >>

FormatNext == FormatCall

SpecFormat == FormatInit /\ [][FormatNext]_vars

MaxData == 4

DataChars == { "{", "}", "\"", "a", " " }

\* The data of a parser: a text with its trailing white space stripped.
Datas == { d \in Strings(DataChars, MaxData) : StripTrailing(d) = d }

\* The cursor is after an opening brace or quote and the text up to the
\* closing one is about to be scanned.
BalancedInit ==
    /\ call \in { [ fn |-> "balanced", data |-> c[1], off |-> c[2], term |-> c[3] ] :
                     c \in { c \in Datas \X (0 .. MaxData) \X { "}", "\"" } :
                               c[2] <= Len(c[1]) } }
    /\ result = << >>
    /\ LoadIdle
    /\ SortIdle
    /\ MainIdle
    /\ StepIdle

\* _scan_balanced_text(term)
BalancedCall ==
    /\ call # << >> /\ call.fn = "balanced" /\ result = << >>
    /\ result' = << ScanBalancedText(call.data, call.off, call.term) >>
    /\ UNCHANGED << call, loadvars, sortvars, mainvars, stepvars >>

BalancedNext == BalancedCall

SpecBalanced == BalancedInit /\ [][BalancedNext]_vars

MaxPieces == 2

\* The pieces the field values are written from: src is the piece as
\* written, raw the text between its delimiters, id whether it is an
\* identifier.
Part(src, raw, id) == [ src |-> src, raw |-> raw, id |-> id ]

PartPool ==
    { Part(<< "{", " ", "a", "\t", " ", "b", " ", "}" >>,
           << " ", "a", "\t", " ", "b", " " >>, FALSE),
      Part(<< "{", "a", "\n", "\n", "b", "}" >>, << "a", "\n", "\n", "b" >>, FALSE),
      Part(<< "\"", " ", "\"" >>, << " " >>, FALSE),
      Part(<< "{", "}" >>, << >>, FALSE),
      Part(<< "1", "2" >>, << "1", "2" >>, FALSE),
      Part(<< "M" >>, << >>, TRUE),
      Part(<< "u" >>, << >>, TRUE) }

\* What is written between two pieces.
Seps == { << "#" >>, << " ", "#", " " >>, << "\n", "#", "\t" >> }

\* The tables of the caller: none, and one whose value has white space.
ValueTables ==
    { NoMacros, << "m" >> :> << " ", "x", " ", "\n", "\t", "y", "\t" >> }

\* The pieces ps written with the separators ss between them.
RECURSIVE Glue(_, _)
Glue(ps, ss) ==
    IF Len(ps) = 1 THEN ps[1].src
    ELSE (ps[1].src \o ss[1]) \o Glue(Tail(ps), Tail(ss))

\* The cursor is at the start of a field value.
ValueInit ==
    /\ call \in UNION { { [ fn |-> "value", parts |-> ps, data |-> Glue(ps, ss),
                              macros |-> t, warn_macros |-> w ] :
                               ss \in [ 1 .. Len(ps) - 1 -> Seps ],
                               t \in ValueTables, w \in BOOLEAN } :
                           ps \in Strings(PartPool, MaxPieces) \ { << >> } }
    /\ result = << >>
    /\ LoadIdle
    /\ SortIdle
    /\ MainIdle
    /\ StepIdle

\* _scan_field_value
ValueCall ==
    /\ call # << >> /\ call.fn = "value" /\ result = << >>
    /\ result' = << ScanFieldValue(call.data, 0, call.macros, call.warn_macros) >>
    /\ UNCHANGED << call, loadvars, sortvars, mainvars, stepvars >>

ValueNext == ValueCall

SpecValue == ValueInit /\ [][ValueNext]_vars

\* ------------------------------------------------------------ properties

Year == << "y", "e", "a", "r" >>

Month == << "m", "o", "n", "t", "h" >>

\* The number of places of a sequence that hold x.
Count(seq, x) == Cardinality({ i \in DOMAIN seq : seq[i] = x })

\* The places of the trace where an entry with key k was yielded.
EntriesAt(k) == { i \in DOMAIN trace : trace[i].kind = "entry" /\ trace[i].key = k }

Last(S) == CHOOSE i \in S : \A j \in S : j <= i

First(S) == CHOOSE i \in S : \A j \in S : i <= j

\* C1: for every document D that loads returns, loads(dumps(D)) with the same
\* macros raises no error, and dumps(loads(dumps(D))) is dumps(D) character
\* for character.
C1_Idempotent ==
    /\ pc = "reloaded" => ~ again.fail
    /\ pc = "redumped" => out2 = out

\* The text of a field of an entry, "0" for an entry without it.
TextOr0(e, n) ==
    IF \E i \in DOMAIN e.fields : e.fields[i].name = n
    THEN e.fields[CHOOSE i \in DOMAIN e.fields : e.fields[i].name = n].text
    ELSE << "0" >>

\* Entry x is to come before entry y: a later year; or the same year and a
\* later month; or the same year and month and a smaller key.
ComesBefore(x, y) ==
    \/ StrLess(TextOr0(y, Year), TextOr0(x, Year))
    \/ /\ TextOr0(y, Year) = TextOr0(x, Year)
       /\ StrLess(TextOr0(y, Month), TextOr0(x, Month))
    \/ /\ TextOr0(y, Year) = TextOr0(x, Year)
       /\ TextOr0(y, Month) = TextOr0(x, Month)
       /\ StrLess(x.key, y.key)

\* C2: the sorted entries are the entries of the document, by year
\* descending, then month descending, then key ascending in string order.
C2_SortOrder ==
    sorted # << >> =>
        /\ Len(sorted[1]) = Len(unsorted)
        /\ \A i \in DOMAIN unsorted : \E j \in DOMAIN sorted[1] : sorted[1][j] = unsorted[i]
        /\ \A i, j \in DOMAIN sorted[1] :
               i < j => ComesBefore(sorted[1][i], sorted[1][j])

\* C3: of the entries read with one key the document holds exactly one, with
\* the type and the fields of the last one read and nothing of the earlier
\* ones; each occurrence after the first has emitted exactly one "repeated
\* entry" warning; a repeated entry never makes loads raise, and the document
\* loads returns is this one.
C3_LastEntryWins ==
    /\ \A i \in DOMAIN trace :
           trace[i].kind = "entry" =>
               /\ Cardinality({ j \in DOMAIN doc.entries :
                                    doc.entries[j].key = trace[i].key }) = 1
               /\ DictGet(doc.entries, "key", trace[i].key) =
                      [ key |-> trace[i].key,
                        entry_type |-> trace[Last(EntriesAt(trace[i].key))].typ,
                        fields |-> trace[Last(EntriesAt(trace[i].key))].fields ]
               /\ Count(warnings, Warning("repeated entry", trace[i].key)) =
                      Cardinality(EntriesAt(trace[i].key)) - 1
    /\ pc = "raised" => trace[Len(trace)].kind = "fail"
    /\ pc = "returned" => bib = << doc >>

\* Two entries with one key and different types and fields were read, and
\* loads has returned.
C3_Witness ==
    /\ pc = "returned"
    /\ \E i, j \in DOMAIN trace :
           /\ i < j
           /\ trace[i].kind = "entry" /\ trace[j].kind = "entry"
           /\ trace[i].key = trace[j].key
           /\ trace[i].typ # trace[j].typ
           /\ trace[i].fields # trace[j].fields
           /\ trace[i].fields # << >>

\* The places of the fields read for an entry that hold a field named n.
NamedAt(raw, n) == { i \in DOMAIN raw : raw[i].name = n }

\* The fields read for an entry that are the first of their name, in order.
FirstOfName(raw) ==
    Pick(raw, SelectSeq([ i \in 1 .. Len(raw) |-> i ],
                        LAMBDA i : i = First(NamedAt(raw, raw[i].name))))

\* C4: the fields of every entry read are the first occurrences of the names
\* read for it, in the order read, so that a later occurrence of a name is
\* read and dropped and the fields after it are still read; each dropped
\* occurrence has emitted exactly one "repeated field" warning.
C4_FirstFieldWins ==
    \A i \in DOMAIN trace :
        trace[i].kind = "entry" =>
            /\ trace[i].fields = FirstOfName(trace[i].raw)
            /\ \A j \in DOMAIN trace[i].raw :
                   Count(trace[i].warns,
                         Warning("repeated field", trace[i].raw[j].name)) =
                       Cardinality(NamedAt(trace[i].raw, trace[i].raw[j].name)) - 1

\* An entry was read in which a name occurs twice with different values and
\* another field follows the second occurrence and is kept.
C4_Witness ==
    \E i \in DOMAIN trace :
        /\ trace[i].kind = "entry"
        /\ \E a, b, c \in DOMAIN trace[i].raw :
               /\ a < b /\ b < c
               /\ trace[i].raw[a].name = trace[i].raw[b].name
               /\ trace[i].raw[a].text # trace[i].raw[b].text
               /\ trace[i].raw[c].name # trace[i].raw[a].name
               /\ \E f \in DOMAIN trace[i].fields :
                      trace[i].fields[f] = trace[i].raw[c]

\* Every field read for an entry of the trace, kept or dropped.
FieldsRead ==
    UNION { { trace[i].raw[j] : j \in DOMAIN trace[i].raw } :
              i \in { i \in DOMAIN trace : trace[i].kind = "entry" } }

\* The value was written as exactly one identifier and nothing else.
OneIdentifier(f) == Len(f.pieces) = 1 /\ f.pieces[1] \in { "macro", "undefined" }

\* v is text written as a braced or quoted literal.
Literal(v, txt) ==
    \/ v = (<< "{" >> \o txt) \o << "}" >>
    \/ v = (<< "\"" >> \o txt) \o << "\"" >>
    \/ v = (<< "\"", "{" >> \o txt) \o << "}", "\"" >>


\* C5: a field value has a macro tag exactly when it was written as one
\* identifier with no "#"; a tagged value is emitted as the bare identifier;
\* every other value is emitted as a braced or quoted literal of its text,
\* except that a year whose text is all digits is emitted as the bare digits.
C5_MacroTag ==
    \A f \in FieldsRead :
        /\ f.macro # NoTag <=> OneIdentifier(f)
        /\ OneIdentifier(f) =>
               /\ FormatValue(PRETTY(f.name), f) = f.macro
               /\ \A k \in DOMAIN f.macro : f.macro[k] \in IdChars
        /\ ~ OneIdentifier(f) =>
               IF f.name = Year /\ IsDigit(f.text)
               THEN FormatValue(PRETTY(f.name), f) = f.text
               ELSE Literal(FormatValue(PRETTY(f.name), f), f.text)

\* C5 as it was stated: every value that is not one identifier is emitted as
\* a braced or quoted literal.
C5_Original ==
    \A f \in FieldsRead :
        /\ f.macro # NoTag <=> OneIdentifier(f)
        /\ OneIdentifier(f) => FormatValue(PRETTY(f.name), f) = f.macro
        /\ ~ OneIdentifier(f) => Literal(FormatValue(PRETTY(f.name), f), f.text)

\* Fields were read that were written as one identifier, as an identifier
\* joined to an empty string, as two identifiers of the macro table joined,
\* and as a year of digits.
C5_Witness ==
    \E a, b, c, d \in FieldsRead :
        /\ a.pieces = << "macro" >> /\ a.macro # NoTag
        /\ FormatValue(PRETTY(a.name), a) = a.macro
        /\ b.pieces = << "undefined", "quoted" >> /\ b.macro = NoTag
        /\ c.pieces = << "macro", "macro" >> /\ c.macro = NoTag
        /\ d.name = Year /\ IsDigit(d.text)
        /\ FormatValue(PRETTY(d.name), d) = d.text

\* The warnings about unknown macros, and the others.
Unknown(ws) == SelectSeq(ws, LAMBDA w : w[1] = "unknown macro")

Known(ws) == SelectSeq(ws, LAMBDA w : w[1] # "unknown macro")

\* The identifier pieces of an item that were not in the macro table, as
\* pairs of a place among the fields read and a place among the pieces (place
\* 0 for the value of a preamble or string).
UndefinedPieces(item) ==
    UNION { { << j, k >> : k \in { k \in DOMAIN item.raw[j].pieces :
                                       item.raw[j].pieces[k] = "undefined" } } :
              j \in DOMAIN item.raw }
    \cup { << 0, k >> : k \in { k \in DOMAIN item.pieces :
                                    item.pieces[k] = "undefined" } }

\* The lowercase names in the data: its longest runs of identifier characters.
Names(d) ==
    { Lower(SubSeq(d, i, RunEnd(d, i - 1, IdChars))) :
        i \in { i \in DOMAIN d : d[i] \in IdChars /\ (i = 1 \/ d[i - 1] \notin IdChars) } }

\* The macro table with every other name of the data defined as the empty
\* string.
AllDefined(table, d) ==
    [ n \in DOMAIN table \cup Names(d) |->
        IF n \in DOMAIN table THEN table[n] ELSE << >> ]

\* What an item gives to loads: its kind, where it ends, and its contents.
Seen(item) ==
    [ kind |-> item.kind, off |-> item.off, typ |-> item.typ, key |-> item.key,
      name |-> item.name, value |-> item.value,
      fields |-> [ j \in DOMAIN item.fields |->
                     << item.fields[j].name, item.fields[j].text,
                        item.fields[j].macro >> ] ]

\* An item as the scan made it, without what the trace added.
AsScanned(it) == [ k \in DOMAIN it \ { "from", "given" } |-> it[k] ]

\* The item the last scan yielded, in the state that scan has left: every
\* item of the trace is this item in one reachable state.
Fresh == pc \in { "scan", "raised" } /\ trace # << >>

Latest == trace[Len(trace)]

\* C6: scanning any item with warn_macros true and with warn_macros false
\* gives the same item but for the warnings, which differ by exactly the
\* "unknown macro" warnings: none when false, and when true one for each
\* identifier piece that is not in the table.  The item is the one a table
\* gives in which each such identifier is defined as the empty string, so
\* the reference is not fatal and stands for the empty string.
C6_UnknownMacro ==
    Fresh =>
        LET w == ScanCommandOrEntry(data, Latest.from, Latest.given, TRUE)
            q == ScanCommandOrEntry(data, Latest.from, Latest.given, FALSE)
            d == ScanCommandOrEntry(data, Latest.from,
                                    AllDefined(Latest.given, data), FALSE)
        IN  /\ AsScanned(Latest) = IF warn_macros THEN w ELSE q
            /\ [ w EXCEPT !.warns = << >> ] = [ q EXCEPT !.warns = << >> ]
            /\ q.warns = Known(w.warns)
            /\ w.kind # "fail" =>
                   Len(Unknown(w.warns)) = Cardinality(UndefinedPieces(w))
            /\ Seen(q) = Seen(d)

\* With warn_macros true, loads has returned a document with a field whose
\* value is one identifier that is not in the table, and has warned of it.
C6_Witness ==
    /\ pc = "returned"
    /\ warn_macros
    /\ \E i \in DOMAIN bib[1].entries :
           \E j \in DOMAIN bib[1].entries[i].fields :
               /\ bib[1].entries[i].fields[j].pieces = << "undefined" >>
               /\ bib[1].entries[i].fields[j].text = << >>
               /\ Count(warnings,
                        Warning("unknown macro",
                                bib[1].entries[i].fields[j].macro)) = 1

\* The place of the delimiter that opens the command of an item: the first
\* "{" or "(" after the first "@" from where its scan started.
OpenPos(it) ==
    First({ p \in 1 .. Len(data) :
              /\ data[p] \in { "{", "(" }
              /\ p > First({ a \in it.from + 1 .. Len(data) : data[a] = "@" }) })

\* The place of the delimiter that closes it: the last character before
\* where the item ends that is no white space.
ClosePos(it) == Last({ p \in 1 .. it.off : data[p] \notin SpaceChars })

\* The places to end the input at from the opening delimiter of the command
\* to just before its closing delimiter.  The data never ends in a space or
\* tab, the parser having stripped it.
Cuts(it) ==
    { p \in OpenPos(it) .. ClosePos(it) - 1 : data[p] \notin { " ", "\t" } }

\* C7: a scan that consumed the opening delimiter of a command and not its
\* closing delimiter has failed; a failed scan ends loads, which raises and
\* returns no document, whatever it had read; and of every entry, preamble or
\* string read, the scan of the same data ended anywhere inside the command
\* fails with the command open.
C7_EndOfInput ==
    /\ \A i \in DOMAIN trace :
           /\ trace[i].opened /\ ~ trace[i].closed => trace[i].kind = "fail"
           /\ trace[i].kind = "fail" =>
                  /\ i = Len(trace)
                  /\ pc = "raised"
                  /\ bib = << >>
                  /\ out = << >>
    /\ Fresh /\ Latest.kind \in { "entry", "preamble", "string" } =>
           \A p \in Cuts(Latest) :
               LET r == ScanCommandOrEntry(SubSeq(data, 1, p), Latest.from,
                                           Latest.given, warn_macros)
               IN  r.kind = "fail" /\ r.opened /\ ~ r.closed

\* An entry was read and stored, and then the input ended inside an open
\* command: loads has raised and there is no document.
C7_Witness ==
    /\ pc = "raised"
    /\ Len(trace) = 2
    /\ trace[1].kind = "entry"
    /\ doc.entries # << >>
    /\ trace[2].opened /\ ~ trace[2].closed
    /\ trace[2].off >= Len(data)
    /\ bib = << >>

\* C8: when main has ended, by returning or by an error, the loop has come
\* to every file of the command line.
C8_LaterFiles ==
    mpc \in { "done", "raised" } => handled = DOMAIN bibfile

\* The files but for the one at path p.
Without(files, p) == [ q \in DOMAIN files \ { p } |-> files[q] ]

\* C9: when the replace step of a file has ended: if the output was equal to
\* the file, the files are as they were when the loop came to the file, but
\* for the temporary file, which is gone; if the file was replaced, the path
\* holds the new output and the backup the original; if the rename to the
\* backup failed, or the second rename failed and the backup was put back,
\* the path holds the original; and if putting the backup back failed too,
\* the path does not exist and the backup holds the original.
C9_Replace ==
    outcome # << >> =>
        LET f == outcome[1].file
            how == outcome[1].how
        IN  /\ Exists(original, f)
            /\ how = "same" =>
                   /\ ~ Exists(fs, Tmpname(f))
                   /\ Without(fs, Tmpname(f)) = Without(original, Tmpname(f))
            /\ how = "replaced" =>
                   /\ Exists(fs, f) /\ fs[f] = newtext
                   /\ Exists(fs, Bakname(f)) /\ fs[Bakname(f)] = original[f]
                   /\ ~ Exists(fs, Tmpname(f))
            /\ how \in { "unlink failed", "rename to backup failed", "reverted" } =>
                   Exists(fs, f) /\ fs[f] = original[f]
            /\ how = "reverted" => ~ Exists(fs, Bakname(f))
            /\ how = "revert failed" =>
                   /\ ~ Exists(fs, f)
                   /\ Exists(fs, Bakname(f)) /\ fs[Bakname(f)] = original[f]

\* C9 as it was stated: however the replace step has ended, the path exists
\* and holds the original or the new output, and it holds the original if
\* the second rename failed.
C9_Original ==
    outcome # << >> =>
        /\ Exists(fs, outcome[1].file)
        /\ fs[outcome[1].file] \in { original[outcome[1].file], newtext }
        /\ outcome[1].how \in { "reverted", "revert failed" } =>
               fs[outcome[1].file] = original[outcome[1].file]

\* The output differed from the file, the second rename failed and the
\* backup was put back: the path holds the original.
C9_Witness ==
    /\ outcome # << >>
    /\ outcome[1].how = "reverted"
    /\ mpc = "raised"
    /\ original[outcome[1].file] # newtext
    /\ fs[outcome[1].file] = original[outcome[1].file]
    /\ Exists(fs, Tmpname(outcome[1].file))

\* The priority list of field names.
Priority ==
    << << "a", "u", "t", "h", "o", "r" >>,
       << "t", "i", "t", "l", "e" >>,
       << "j", "o", "u", "r", "n", "a", "l" >>,
       << "k", "e", "y", "w", "o", "r", "d", "s" >>,
       << "y", "e", "a", "r" >>,
       << "m", "o", "n", "t", "h" >>,
       << "v", "o", "l", "u", "m", "e" >>,
       << "n", "u", "m", "b", "e", "r" >>,
       << "e", "i", "d" >>,
       << "p", "a", "g", "e", "s" >>,
       << "d", "o", "i" >>,
       << "a", "r", "c", "h", "i", "v", "e", "p", "r", "e", "f", "i", "x" >>,
       << "e", "p", "r", "i", "n", "t" >>,
       << "p", "r", "i", "m", "a", "r", "y", "c", "l", "a", "s", "s" >>,
       << "a", "d", "s", "u", "r", "l" >>,
       << "a", "d", "s", "n", "o", "t", "e" >> >>

Listed(n) == \E i \in DOMAIN Priority : Priority[i] = n

Rank(n) == CHOOSE i \in DOMAIN Priority : Priority[i] = n

\* Field name a is to come before field name b.
InOrder(a, b) ==
    IF Listed(a) THEN Listed(b) => Rank(a) < Rank(b)
    ELSE ~ Listed(b) /\ StrLess(a, b)

\* The places in text t where pat occurs.
Occurs(t, pat) ==
    { p \in 1 .. Len(t) - Len(pat) + 1 : SubSeq(t, p, p + Len(pat) - 1) = pat }

\* The places in text t where the line of the field named n begins: a comma,
\* a newline, the name as it is written right-aligned in its column, " = ".
LineAt(t, n) ==
    Occurs(t, (<< ",", "\n" >> \o PadLeft(PRETTY(n), FieldWidth))
                  \o << " ", "=", " " >>)

\* C10: in the text of every entry of the document loads returned, each
\* field has exactly one line, and the line of a field comes before the line
\* of another whenever both are in the priority list and the first is earlier
\* in it, or only the first is in the list, or neither is and the first is
\* alphabetically smaller; the order the fields were read in plays no part.
C10_FieldOrder ==
    bib # << >> =>
        \A i \in DOMAIN bib[1].entries :
            LET e == bib[1].entries[i]
                t == Format(e, e.key)
            IN  /\ \A j \in DOMAIN e.fields :
                       Cardinality(LineAt(t, e.fields[j].name)) = 1
                /\ \A j, k \in DOMAIN e.fields :
                       InOrder(e.fields[j].name, e.fields[k].name) =>
                           First(LineAt(t, e.fields[j].name)) <
                               First(LineAt(t, e.fields[k].name))
                /\ \A j, k \in DOMAIN e.fields :
                       j # k => \/ InOrder(e.fields[j].name, e.fields[k].name)
                                \/ InOrder(e.fields[k].name, e.fields[j].name)

\* The document has been written, and an entry of it was read with an
\* unlisted field first, then a listed field with a pretty name, then an
\* unlisted field alphabetically before the first, then a listed field that
\* is earlier in the list.
C10_Witness ==
    /\ pc = "dumped"
    /\ \E i \in DOMAIN bib[1].entries :
           \E a, b, c, d \in DOMAIN bib[1].entries[i].fields :
               LET f == bib[1].entries[i].fields
               IN  /\ a < b /\ b < c /\ c < d
                   /\ ~ Listed(f[a].name)
                   /\ Listed(f[b].name) /\ PRETTY(f[b].name) # f[b].name
                   /\ ~ Listed(f[c].name) /\ StrLess(f[c].name, f[a].name)
                   /\ Listed(f[d].name) /\ Rank(f[d].name) < Rank(f[b].name)

\* The start of the line of a field, up to the value.
LineHead(field) ==
    << ",", "\n" >> \o PadLeft(PRETTY(field), FieldWidth) \o << " ", "=", " " >>

\* The first character of v is "{" and the last is "}".
BraceEnds(v) == v # << >> /\ v[1] = "{" /\ v[Len(v)] = "}"

\* v is inside one pair of braces: the brace that opens v is closed by the
\* last character of v and not before.
Wrapped(v) == BraceEnds(v) /\ \A i \in 1 .. Len(v) - 1 : Depth(v, i) >= 1

\* The value as the rules give it, tried in the order tag, year, title,
\* other; wrapped says whether a title counts as already in braces.
Rendered(field, f, wrapped) ==
    IF f.macro # NoTag THEN f.macro
    ELSE IF field = Year /\ f.text # << >> /\ \A i \in DOMAIN f.text : f.text[i] \in Digits
    THEN f.text
    ELSE IF field = << "t", "i", "t", "l", "e" >>
    THEN IF wrapped THEN (<< "\"" >> \o f.text) \o << "\"" >>
         ELSE (<< "\"", "{" >> \o f.text) \o << "}", "\"" >>
    ELSE (<< "{" >> \o f.text) \o << "}" >>

\* C11: the formatter writes a tagged value as the bare macro name; else a
\* year of one or more digits bare; else a title as "{value}", except that a
\* non-empty title whose first character is "{" and whose last is "}" is
\* written as "value"; else {value}.
C11_ValueRendering ==
    result # << >> /\ call.fn = "format" =>
        result[1] = LineHead(call.field)
                      \o Rendered(call.field, call.value, BraceEnds(call.value.text))

\* C11 as it was stated: the title written in quotes only is the one that is
\* inside one pair of braces.
C11_Original ==
    result # << >> /\ call.fn = "format" =>
        result[1] = LineHead(call.field)
                      \o Rendered(call.field, call.value, Wrapped(call.value.text))

\* A title that begins and ends with a brace, and is not inside one pair,
\* was written in quotes only.
C11_Witness ==
    /\ result # << >> /\ call.fn = "format"
    /\ call.field = << "t", "i", "t", "l", "e" >> /\ call.value.macro = NoTag
    /\ BraceEnds(call.value.text) /\ ~ Wrapped(call.value.text)
    /\ result[1] = (LineHead(call.field) \o << "\"" >>) \o call.value.text \o << "\"" >>

\* The places of the trace where an @string of name n was yielded.
StringsAt(n) == { i \in DOMAIN trace : trace[i].kind = "string" /\ trace[i].name = n }

\* The fields of a sequence that were written as one identifier found in the
\* macro table are the values the table t gives.
ResolvedBy(fields, t) ==
    \A k \in DOMAIN fields :
        fields[k].pieces = << "macro" >> =>
            /\ Lower(fields[k].macro) \in DOMAIN t
            /\ fields[k].text = t[Lower(fields[k].macro)]

\* C12: an @string of a name that is in the macro table gives one "redefined"
\* warning (and none when the name is new) and puts its value in the table
\* in place of the old one; every item scanned after it, up to the next
\* @string of that name, finds the new value, and its macro references are
\* the values of the table as it was when the item was scanned; the fields
\* of the entries stored before stay as they were resolved; the strings of
\* the document hold the last definition of each name.
C12_Redefine ==
    /\ \A i \in DOMAIN trace :
         /\ trace[i].given = IF i = 1 THEN macros0 ELSE trace[i - 1].macros
         /\ trace[i].kind = "entry" => ResolvedBy(trace[i].raw, trace[i].given)
         /\ trace[i].kind = "string" =>
                /\ Count(trace[i].warns, Warning("redefined", trace[i].name))
                      = IF trace[i].name \in DOMAIN trace[i].given THEN 1 ELSE 0
                /\ Len(SelectSeq(trace[i].warns, LAMBDA w : w[1] = "redefined"))
                      = IF trace[i].name \in DOMAIN trace[i].given THEN 1 ELSE 0
                /\ DOMAIN trace[i].macros = DOMAIN trace[i].given \cup { trace[i].name }
                /\ \A n \in DOMAIN trace[i].macros :
                       trace[i].macros[n] = IF n = trace[i].name THEN trace[i].value
                                            ELSE trace[i].given[n]
                /\ \A j \in DOMAIN trace :
                       j > i /\ (\A h \in StringsAt(trace[i].name) : h <= i \/ h >= j)
                           => trace[j].given[trace[i].name] = trace[i].value
         /\ trace[i].kind \notin { "string", "fail" } => trace[i].macros = trace[i].given
    /\ \A e \in DOMAIN doc.entries :
         /\ EntriesAt(doc.entries[e].key) # {}
         /\ ResolvedBy(doc.entries[e].fields,
                       trace[Last(EntriesAt(doc.entries[e].key))].given)
    /\ \A i \in DOMAIN trace :
         trace[i].kind = "string" =>
             /\ HasKey(doc.strings, "name", trace[i].name)
             /\ DictGet(doc.strings, "name", trace[i].name).value
                   = trace[Last(StringsAt(trace[i].name))].value
    /\ pc # "raised" /\ trace # << >> => macros = trace[Len(trace)].macros
    /\ bib # << >> => bib[1] = doc

\* jan, which the caller's table gives as 01, was defined again by an
\* @string with one "redefined" warning, and an entry read after it has a
\* field written as jan whose value is the new one and not 01.
C12_Witness ==
    \E i, j \in DOMAIN trace :
        /\ i < j
        /\ trace[i].kind = "string" /\ trace[i].name = << "j", "a", "n" >>
        /\ trace[i].name \in DOMAIN trace[i].given
        /\ trace[i].given[trace[i].name] # trace[i].value
        /\ Warning("redefined", trace[i].name) \in { warnings[k] : k \in DOMAIN warnings }
        /\ trace[j].kind = "entry"
        /\ \E k \in DOMAIN trace[j].fields :
               /\ trace[j].fields[k].pieces = << "macro" >>
               /\ Lower(trace[j].fields[k].macro) = trace[i].name
               /\ trace[j].fields[k].text = trace[i].value
        /\ bib # << >>
        /\ DictGet(bib[1].strings, "name", trace[i].name).value = trace[i].value

\* The braces open at place i of the data, counted from offset from.
DepthFrom(d, from, i) ==
    Cardinality({ k \in from + 1 .. i : d[k] = "{" })
        - Cardinality({ k \in from + 1 .. i : d[k] = "}" })

\* The places after offset from that hold character c at depth 0.
AtDepth0(d, from, c) ==
    { t \in from + 1 .. Len(d) : d[t] = c /\ DepthFrom(d, from, t - 1) = 0 }

\* The first place that ends the scan: a terminator or a closing brace at
\* depth 0; 0 when there is none.
FirstEnd(d, from, term) ==
    LET ends == AtDepth0(d, from, term) \cup AtDepth0(d, from, "}")
    IN  IF ends = {} THEN 0 ELSE CHOOSE t \in ends : \A u \in ends : t <= u

\* e is the offset after place t and the white space that follows it.
AfterSpace(d, t, e) ==
    /\ e \in t .. Len(d)
    /\ \A i \in t + 1 .. e : d[i] \in { " ", "\t", "\n" }
    /\ e = Len(d) \/ d[e + 1] \notin { " ", "\t", "\n" }

\* C13: _scan_balanced_text(term) gives the text from the starting offset up
\* to the first terminator at depth 0 and leaves the cursor after it and
\* the white space that follows; a terminator inside braces does not end
\* the scan; it fails when a closing brace comes at depth 0 before the
\* terminator, and when the data ends before the terminator.
C13_BalancedText ==
    result # << >> /\ call.fn = "balanced" =>
        LET t == FirstEnd(call.data, call.off, call.term)
        IN  IF t = 0
            THEN result[1].fail /\ result[1].msg = "unterminated string"
            ELSE IF call.data[t] = call.term
            THEN /\ ~ result[1].fail
                 /\ result[1].text = SubSeq(call.data, call.off + 1, t - 1)
                 /\ AfterSpace(call.data, t, result[1].off)
            ELSE result[1].fail /\ result[1].msg = "unexpected }"

\* A scan for a quote went over a quote inside braces and ended at the
\* quote after them.
C13_Witness ==
    /\ result # << >> /\ call.fn = "balanced" /\ call.term = "\""
    /\ ~ result[1].fail
    /\ \E i \in DOMAIN result[1].text : result[1].text[i] = "\""
    /\ call.data[call.off + Len(result[1].text) + 1] = "\""

White == { " ", "\t", "\n" }

\* The words of s: the longest runs of characters that are not white space,
\* in order.
Words(s) ==
    LET starts(i) == s[i] \notin White /\ (i = 1 \/ s[i - 1] \in White)
        end(i) == CHOOSE e \in i .. Len(s) :
                      /\ \A k \in i .. e : s[k] \notin White
                      /\ e = Len(s) \/ s[e + 1] \in White
        at == SelectSeq([ i \in 1 .. Len(s) |-> i ], starts)
    IN  [ k \in 1 .. Len(at) |-> SubSeq(s, at[k], end(at[k])) ]

\* The text a piece stands for with table t.
Denotes(part, t) ==
    IF ~ part.id THEN part.raw
    ELSE IF Lower(part.src) \in DOMAIN t THEN t[Lower(part.src)] ELSE << >>

\* The texts of the pieces, one after the other.
RECURSIVE Assembled(_, _)
Assembled(parts, t) ==
    IF parts = << >> THEN << >>
    ELSE Denotes(parts[1], t) \o Assembled(Tail(parts), t)

\* C14: the value _scan_field_value returns is the assembled text with each
\* run of space, tab and newline made one space and the spaces at its ends
\* removed: it has no tab, no newline, no two spaces in a row and no space
\* at either end; the tag of a value written as one identifier is kept.
C14_Normalised ==
    result # << >> /\ call.fn = "value" =>
        /\ ~ result[1].fail
        /\ result[1].text = Join(Words(Assembled(call.parts, call.macros)), << " " >>)
        /\ \A i \in DOMAIN result[1].text :
               /\ result[1].text[i] \notin { "\t", "\n" }
               /\ result[1].text[i] = " " =>
                      /\ i \notin { 1, Len(result[1].text) }
                      /\ result[1].text[i + 1] # " "
        /\ result[1].macro = IF Len(call.parts) = 1 /\ call.parts[1].id
                             THEN call.parts[1].src ELSE NoTag

\* A value written as the one identifier M, whose text in the table has
\* spaces, a tab and a newline, was returned as two words and one space,
\* with the tag M.
C14_Witness ==
    /\ result # << >> /\ call.fn = "value"
    /\ Len(call.parts) = 1 /\ call.parts[1].id
    /\ Lower(call.parts[1].src) \in DOMAIN call.macros
    /\ call.macros[Lower(call.parts[1].src)] # result[1].text
    /\ result[1].text = << "x", " ", "y" >>
    /\ result[1].macro = << "M" >>

\* C15: loads comes to an end on every text, returned or raised, as loads
\* run in one piece does; the offset never decreases and stays within one
\* of the end of the data; each time the scan comes to the head of a loop
\* (of the commands, of the fields, of "#", of the balanced scan) the
\* offset is larger than when it last came there, so each turn of a loop
\* that does not end the loop moves the cursor by one character or more.
C15_Terminates ==
    /\ <>(pc \in { "returned", "raised" })
    /\ [](pc \in { "returned", "raised" } =>
              (pc = "raised") = Loads(text, macros0, warn_macros).fail)
    /\ [](off <= Len(data) + 1)
    /\ [][ /\ off' >= off
           /\ pc' \in Loops => off' > frame.at[pc'] ]_vars

\* loads returned after the scan had been at the head of each of the four
\* loops at an offset past the start of the data.
C15_Witness ==
    /\ pc = "returned" /\ frame # << >>
    /\ \A l \in Loops : frame.at[l] > 0

====
